---- MODULE Spec2Model ----
(***************************************************************************)
(* Projects Memory (Obsidian plugin): the review scheduler and its         *)
(* persistent statistics store.                                            *)
(*                                                                         *)
(* Two revisions of the review modal live in the repository:               *)
(*   - the stats-based modal (src/unnamed/part_002) working with the       *)
(*     plugin of src/main.ts lines 1-346: specification Spec;              *)
(*   - the frontmatter-based modal (src/src/ReviewModal.ts), which keeps   *)
(*     the score in the note's frontmatter and still has the               *)
(*     'Priorite Max' button: specification SpecFm.                        *)
(*                                                                         *)
(* Numbers: JavaScript numbers are modelled in fixed point, Scale units    *)
(* per point (50 is 50000, 40.2 is 40200); a product with a fraction is    *)
(* truncated to that resolution.                                           *)
(***************************************************************************)
EXTENDS Integers, Sequences, FiniteSets, TLC

\* ---------------------------------------------------------------- bounds
NumFiles == 3          \* markdown files in the vault
MaxClicks == 3         \* review-button clicks in one behaviour
MaxStarts == 2         \* plugin starts (onload runs) in one behaviour

\* ------------------------------------------------------- program constants
Scale == 1000                  \* fixed-point resolution of a JS number
MinScore == 1 * Scale          \* Math.max(1, ...)
MaxScore == 100 * Scale        \* Math.min(100, ...)
DefaultScore == 50 * Scale     \* DEFAULT_SETTINGS.defaultScore
DefaultRotationBonus == Scale \div 10   \* DEFAULT_SETTINGS.rotationBonus = 0.1
FallbackRapprochement == Scale \div 5   \* settings.rapprochementFactor ?? 0.2
DefaultRapprochment == Scale \div 5     \* DEFAULT_SETTINGS.rapprochmentFactor
WeightDen == 2                 \* recencyPenaltyWeight is weightNum / WeightDen
DefaultWeightNum == 1          \* DEFAULT_SETTINGS.recencyPenaltyWeight = 0.5
HistoryCap == 100              \* reviewHistory.slice(-100)

Files == 1..NumFiles           \* position in vault.getMarkdownFiles()
NoFile == 0

\* file.basename, as its rank under localeCompare: the vault lists the files
\* in the reverse of the alphabetical order of their names
Basename(f) == NumFiles + 1 - f

Min(a, b) == IF a < b THEN a ELSE b
Max(a, b) == IF a > b THEN a ELSE b

\* ------------------------------------------------------ JavaScript numbers
\* A score read from the payload is a number, or undefined (the property is
\* absent), or null (what JSON.stringify writes for NaN); a computed value is
\* a number or NaN.  The three are encoded below every number of the model.
NaN == 0 - Scale * Scale * Scale
ScoreUndefined == NaN - 1
ScoreNull == NaN - 2

\* the value is a JavaScript number other than NaN
IsNumber(x) == x > NaN

\* ToNumber: undefined is NaN, null is 0
ToNumber(x) ==
    IF x = ScoreUndefined THEN NaN ELSE IF x = ScoreNull THEN 0 ELSE x

\* a + b and a - b, NaN when an operand is
Plus(a, b) ==
    IF ToNumber(a) = NaN \/ ToNumber(b) = NaN THEN NaN
    ELSE ToNumber(a) + ToNumber(b)
Minus(a, b) ==
    IF ToNumber(a) = NaN \/ ToNumber(b) = NaN THEN NaN
    ELSE ToNumber(a) - ToNumber(b)

\* x * (num / Scale), truncated to the resolution
MulFrac(x, num) ==
    IF ToNumber(x) = NaN THEN NaN ELSE (ToNumber(x) * num) \div Scale

\* JSON.stringify then JSON.parse of a value: NaN comes back as null
ToJSON(x) == IF x = NaN THEN ScoreNull ELSE x

\* ------------------------------------------------------------ data model
DEFAULT_SETTINGS ==
    [ defaultScore          |-> DefaultScore,
      rotationBonus         |-> DefaultRotationBonus,
      rapprochmentFactor    |-> DefaultRapprochment,
      weightNum             |-> DefaultWeightNum,
      tagsConfigured        |-> TRUE,
      scoresMigratedToStats |-> FALSE,
      statsStoredInData     |-> FALSE ]

createEmptyStatsData ==
    [ projects    |-> << >>,
      globalStats |-> [ totalReviews |-> 0, totalPomodoroTime |-> 0 ] ]

\* the record getProjectStats / updateProjectScore / recordReviewAction create
NewProjectStats(score) ==
    [ currentScore   |-> score,
      rotationBonus  |-> 0,
      totalReviews   |-> 0,
      lastReviewDate |-> 0,
      reviewHistory  |-> << >> ]

\* projects with the entry of f added or replaced
WithProject(projects, f, rec) ==
    [ g \in (DOMAIN projects) \cup {f} |-> IF g = f THEN rec ELSE projects[g] ]

VARIABLES
    data,                    \* what loadData() returns (data.json)
    legacyFile,              \* .obsidian/plugins/<id>/stats.json (exists, stats)
    vault,                   \* per file: tags and frontmatter
    settings,                \* plugin.settings (in memory)
    sessionIgnoredProjects,  \* plugin.sessionIgnoredProjects
    sessionReviewCounts,     \* plugin.sessionReviewCounts (0 = no entry)
    chosen,                  \* file shown by the open modal, NoFile if none
    starts,                  \* number of times onload has run
    now,                     \* clock: number of review clicks so far
    last,                    \* the handler that ran last (history variable)
    inflight,                \* the asynchronous operations that are suspended
    pomodoro                 \* plugin.pomodoroState, the global interval, the clock

vars == << data, legacyFile, vault, settings, sessionIgnoredProjects,
           sessionReviewCounts, chosen, starts, now, last, inflight,
           pomodoro >>

\* pomodoroState and pomodoroGlobalIntervalId of a plugin just constructed:
\* no state object (slot), no interval id; loops counts the intervals that
\* window.setInterval created for the global tick and that are not cleared,
\* clock is Date.now() in seconds, started counts the pomodoros started
NoPomodoro ==
    [ slot |-> FALSE, isActive |-> FALSE, startTime |-> 0, durationMs |-> 0,
      remainingMs |-> 0, intervalId |-> FALSE, loops |-> 0, clock |-> 0,
      started |-> 0 ]

\* no review transaction is suspended
IdleTx ==
    [ pc |-> "idle", file |-> NoFile, action |-> "none", newScore |-> 0,
      first |-> FALSE, sd |-> createEmptyStatsData ]

\* no saveSettings call is suspended
IdleSave ==
    [ pc |-> "idle",
      payload |-> [ layout |-> "none", settings |-> DEFAULT_SETTINGS,
                    hasStats |-> FALSE, stats |-> createEmptyStatsData ] ]

\* no migrateScores call (earlier revision) is in its loop; from is the vault
\* the first call started on (history)
IdleMig == [ pc |-> "idle", next |-> 0, oldMax |-> 0, from |-> << >> ]

\* click handlers that may run at the same time on one modal
Handlers == 1..2

\* a click handler that has not been fired; overlap tells that another handler
\* was running when this one was fired (history)
IdleHandler ==
    [ pc |-> "idle", file |-> NoFile, action |-> "none", newScore |-> 0,
      first |-> FALSE, sd |-> createEmptyStatsData, overlap |-> FALSE ]

\* no handler is suspended at an await
NoInflight ==
    [ tx |-> IdleTx, save |-> IdleSave, mig |-> IdleMig,
      handlers |-> [ h \in Handlers |-> IdleHandler ] ]

\* the plugin is loaded: onload has run
loaded == starts > 0

\* ------------------------------------------------- persisted container
\* data.json is [layout, settings, hasStats, stats]: layout "none" is an absent
\* file, "flat" the legacy file holding the settings alone, "unified" the
\* {settings, stats} container; stats is meaningful when hasStats.

\* loadPersistedContainer: whether the payload has a stats key
HasPayloadStats(d) == d.layout = "unified" /\ d.hasStats

\* loadPersistedContainer: whether the payload has a settings key
HasPayloadSettings(d) == d.layout # "none"

\* loadPersistedContainer: isLegacy
IsLegacy(d) == d.layout = "flat"

\* mutant: the payload is replaced by the settings alone
SaveSettingsAlone(d, st) ==
    [ layout |-> "unified", settings |-> st, hasStats |-> FALSE,
      stats |-> createEmptyStatsData ]

\* saveSettings: data.json after it
SaveSettings(d, st) ==
    [ layout |-> "unified", settings |-> st,
      hasStats |-> HasPayloadStats(d),
      stats |-> IF HasPayloadStats(d) THEN d.stats ELSE createEmptyStatsData ]

\* mutant: the payload is replaced by the stats alone, the settings are lost
SaveStatsDataAlone(d, st, sd) ==
    [ layout |-> "unified", settings |-> DEFAULT_SETTINGS, hasStats |-> TRUE,
      stats |-> sd ]

\* saveStatsData: data.json after it
SaveStatsData(d, st, sd) ==
    [ layout |-> "unified", settings |-> st, hasStats |-> TRUE, stats |-> sd ]

\* loadStatsData: the value it returns
StatsOf(d) == IF HasPayloadStats(d) THEN d.stats ELSE createEmptyStatsData

\* loadStatsData: data.json after it (an empty payload is saved when absent)
LoadStatsData(d, st) ==
    IF HasPayloadStats(d) THEN d
    ELSE SaveStatsData(d, st, createEmptyStatsData)

\* ----------------------------------------------------------- stats store
\* mutant: no test for an existing record, a fresh one is always stored
GetProjectStatsFresh(d, st, f) ==
    LET sd == StatsOf(d) IN
    SaveStatsData(d, st,
        [ sd EXCEPT !.projects =
            WithProject(sd.projects, f, NewProjectStats(st.defaultScore)) ])

\* getProjectStats: data.json after it
GetProjectStats(d, st, f) ==
    LET sd == StatsOf(d) IN
    IF f \in DOMAIN sd.projects THEN LoadStatsData(d, st)
    ELSE SaveStatsData(d, st,
            [ sd EXCEPT !.projects =
                WithProject(sd.projects, f, NewProjectStats(st.defaultScore)) ])

\* the record getProjectStats returns
ProjectStatsOf(d, st, f) == StatsOf(GetProjectStats(d, st, f)).projects[f]

\* getProjectScore: the value it returns
GetProjectScore(d, st, f) == ProjectStatsOf(d, st, f).currentScore

\* Math.min(100, Math.max(1, x))
Clamp(x) ==
    IF ToNumber(x) = NaN THEN NaN
    ELSE Min(MaxScore, Max(MinScore, ToNumber(x)))

\* updateProjectScore: data.json after it
UpdateProjectScore(d, st, f, newScore) ==
    LET sd == StatsOf(d)
        old == IF f \in DOMAIN sd.projects THEN sd.projects[f]
               ELSE NewProjectStats(st.defaultScore)
        rec == [ old EXCEPT !.currentScore = ToJSON(Clamp(newScore)) ]
    IN SaveStatsData(d, st,
          [ sd EXCEPT !.projects = WithProject(sd.projects, f, rec) ])

\* mutant: the bonus is assigned instead of added
IncrementRotationBonusAssign(d, st, excludedPath) ==
    LET sd == StatsOf(d) IN
    SaveStatsData(d, st,
        [ sd EXCEPT !.projects =
            [ g \in DOMAIN sd.projects |->
                IF g # excludedPath
                THEN [ sd.projects[g] EXCEPT !.rotationBonus = st.rotationBonus ]
                ELSE sd.projects[g] ] ])

\* incrementRotationBonus: data.json after it
IncrementRotationBonus(d, st, excludedPath) ==
    LET sd == StatsOf(d) IN
    SaveStatsData(d, st,
        [ sd EXCEPT !.projects =
            [ g \in DOMAIN sd.projects |->
                IF g # excludedPath
                THEN [ sd.projects[g] EXCEPT
                         !.rotationBonus = @ + st.rotationBonus ]
                ELSE sd.projects[g] ] ])

\* mutant: slice(0, 100), the oldest entries are kept
CapHistoryOldest(h) ==
    IF Len(h) > HistoryCap THEN SubSeq(h, 1, HistoryCap) ELSE h

\* reviewHistory.slice(-100) when longer than 100
CapHistory(h) ==
    IF Len(h) > HistoryCap THEN SubSeq(h, Len(h) - HistoryCap + 1, Len(h))
    ELSE h

\* recordReviewAction: data.json after it
RecordReviewAction(d, st, f, action, scoreAfter, date) ==
    LET sd == StatsOf(d)
        old == IF f \in DOMAIN sd.projects THEN sd.projects[f]
               ELSE NewProjectStats(st.defaultScore)
        rec == [ old EXCEPT
                   !.rotationBonus = 0,
                   !.totalReviews = @ + 1,
                   !.lastReviewDate = date,
                   !.reviewHistory = CapHistory(Append(@,
                        [ date |-> date, action |-> action,
                          scoreAfter |-> ToJSON(scoreAfter) ])) ]
    IN SaveStatsData(d, st,
          [ sd EXCEPT !.projects = WithProject(sd.projects, f, rec),
                      !.globalStats.totalReviews = @ + 1 ])

\* ------------------------------------------------------------ selection
\* hasProjectTag of onOpen: getAllTags covers frontmatter and body tags
HasProjectTag(v, f) == v[f].bodyTag \/ v[f].fmTag

\* mutant: the session-ignored set is not consulted
IsCandidateUnfiltered(v, ign, f) ==
    /\ HasProjectTag(v, f)
    /\ ~v[f].archived

\* onOpen, candidate loop: the files that pass the filters, in vault order
IsCandidate(v, ign, f) ==
    /\ f \notin ign
    /\ HasProjectTag(v, f)
    /\ ~v[f].archived

\* onOpen, candidate loop: data.json after getProjectScore on each candidate
RECURSIVE CollectCandidates(_, _, _, _, _)
CollectCandidates(d, st, v, ign, f) ==
    IF f > NumFiles THEN d
    ELSE CollectCandidates(
            IF IsCandidate(v, ign, f) THEN GetProjectStats(d, st, f) ELSE d,
            st, v, ign, f + 1)

\* calculateEffectiveScore: n full applications of the 'less often' reduction
RECURSIVE ReduceTimes(_, _)
ReduceTimes(score, n) ==
    IF n <= 0 THEN score
    ELSE ReduceTimes(
            Minus(score, MulFrac(Minus(score, MinScore), FallbackRapprochement)),
            n - 1)

\* mutant: the penalty is applied Math.round(count * weight) times, without a
\* fractional step
calculateEffectiveScoreRounded(baseScore, rotationBonus, count, weightNum) ==
    LET start == Plus(baseScore, rotationBonus) IN
    IF weightNum > 0 /\ count > 0
    THEN ReduceTimes(start,
                     (2 * count * weightNum + WeightDen) \div (2 * WeightDen))
    ELSE start

\* calculateEffectiveScore
calculateEffectiveScore(baseScore, rotationBonus, count, weightNum) ==
    LET start == Plus(baseScore, rotationBonus) IN
    IF weightNum > 0 /\ count > 0
    THEN LET totalMultiplier == count * weightNum     \* in units of 1/WeightDen
             integerPart == totalMultiplier \div WeightDen
             fractionalPart == totalMultiplier % WeightDen
             reduced == ReduceTimes(start, integerPart)
             finalPerte == MulFrac(Minus(reduced, MinScore), FallbackRapprochement)
         IN IF fractionalPart > 0
            THEN Minus(reduced,
                       IF finalPerte = NaN THEN NaN
                       ELSE (finalPerte * fractionalPart) \div WeightDen)
            ELSE reduced
    ELSE start

\* the effective score onOpen computes for a candidate
EffectiveOf(sd, st, counts, f) ==
    calculateEffectiveScore(sd.projects[f].currentScore,
                            sd.projects[f].rotationBonus,
                            counts[f], st.weightNum)

\* newProjects.sort(localeCompare)[0]: least basename, first listed on a tie
FirstByName(S) ==
    { f \in S : \A g \in S :
        \/ Basename(f) < Basename(g)
        \/ (Basename(f) = Basename(g) /\ f <= g) }

\* mutant: an unstable sort, any candidate with the greatest score may come
\* first
FirstByScoreUnstable(S, sd, st, counts) ==
    { f \in S : \A g \in S :
        EffectiveOf(sd, st, counts, f) >= EffectiveOf(sd, st, counts, g) }

\* existingProjects.sort(b.effectiveScore - a.effectiveScore)[0]: greatest
\* effective score, first listed on a tie (the sort is stable); when a score
\* is NaN the comparator is inconsistent and the order is the engine's choice
FirstByScore(S, sd, st, counts) ==
    IF \E f \in S : EffectiveOf(sd, st, counts, f) = NaN THEN S
    ELSE { f \in S : \A g \in S :
            \/ EffectiveOf(sd, st, counts, f) > EffectiveOf(sd, st, counts, g)
            \/ (EffectiveOf(sd, st, counts, f) = EffectiveOf(sd, st, counts, g)
                /\ f <= g) }

\* mutant: the candidates are not partitioned, the greatest effective score wins
SelectNextByScore(d, st, v, ign, counts) ==
    LET cands == { f \in Files : IsCandidate(v, ign, f) }
        sd == StatsOf(CollectCandidates(d, st, v, ign, 1))
    IN IF ~st.tagsConfigured \/ cands = {} THEN { NoFile }
       ELSE FirstByScore(cands, sd, st, counts)

\* onOpen: the files it may choose; {NoFile} when the modal closes without one
SelectNext(d, st, v, ign, counts) ==
    LET cands == { f \in Files : IsCandidate(v, ign, f) }
        sd == StatsOf(CollectCandidates(d, st, v, ign, 1))
        newProjects == { f \in cands : sd.projects[f].totalReviews = 0 }
        existingProjects == cands \ newProjects
    IN IF ~st.tagsConfigured \/ cands = {} THEN { NoFile }
       ELSE IF newProjects # {} THEN FirstByName(newProjects)
       ELSE FirstByScore(existingProjects, sd, st, counts)

\* ------------------------------------------------------- review handlers
\* mutant: the first review is recorded like any other
updateScoreUngated(d, st, f, newScore, action, date) ==
    LET scored == UpdateProjectScore(GetProjectStats(d, st, f), st, f, newScore)
    IN RecordReviewAction(IncrementRotationBonus(scored, st, f),
                          st, f, action, newScore, date)

\* updateScore of the modal: data.json after it
updateScore(d, st, f, newScore, action, date) ==
    LET isFirstReview == ProjectStatsOf(d, st, f).totalReviews = 0
        scored == UpdateProjectScore(GetProjectStats(d, st, f), st, f, newScore)
    IN IF isFirstReview THEN scored
       ELSE RecordReviewAction(IncrementRotationBonus(scored, st, f),
                               st, f, action, newScore, date)

\* mutant: the gap is measured from 0 and to 100 without the floor of 1
NewScoreOfFromZero(action, s) ==
    CASE action = "less-often" -> Minus(s, MulFrac(s, FallbackRapprochement))
      [] action = "ok"         -> s
      [] action = "more-often" ->
            Plus(s, MulFrac(Minus(MaxScore, s), FallbackRapprochement))

\* the score a button hands to updateScore, from the stored score s; the
\* handlers read settings.rapprochementFactor, a key the settings do not have
\* (theirs is rapprochmentFactor), and so always use the fallback
NewScoreOf(action, s) ==
    CASE action = "less-often" ->
            Minus(s, MulFrac(Minus(s, MinScore), FallbackRapprochement))
      [] action = "ok"         -> s
      [] action = "more-often" ->
            Plus(s, MulFrac(Minus(MaxScore, s), FallbackRapprochement))

\* mutant: the count is set to 1 instead of raised by 1
BumpCountOnce(counts, f) == [ counts EXCEPT ![f] = 1 ]

\* sessionReviewCounts.set(path, prev + 1)
BumpCount(counts, f) == [ counts EXCEPT ![f] = @ + 1 ]

\* mutant: the button starts from the effective score of the session
ScoreButtonFromEffective(action) ==
    /\ loaded
    /\ chosen # NoFile
    /\ now < MaxClicks
    /\ LET f == chosen
           s == EffectiveOf(StatsOf(data), settings, sessionReviewCounts, f)
       IN /\ sessionReviewCounts' = BumpCount(sessionReviewCounts, f)
          /\ data' = updateScore(data, settings, f, NewScoreOf(action, s),
                                 action, now + 1)
          /\ last' = [ op |-> action, file |-> f,
                       first |-> ProjectStatsOf(data, settings, f).totalReviews = 0 ]
    /\ now' = now + 1
    /\ chosen' = NoFile
    /\ UNCHANGED inflight
    /\ UNCHANGED pomodoro
    /\ UNCHANGED << legacyFile, vault, settings, sessionIgnoredProjects, starts >>

\* btn1 / btn2 / btn3 click: 'Agreable / Calme', 'Sous controle',
\* 'Urgent / Stressant'
ScoreButton(action) ==
    /\ loaded
    /\ chosen # NoFile
    /\ now < MaxClicks
    /\ LET f == chosen
           s == GetProjectScore(data, settings, f)
       IN /\ sessionReviewCounts' = BumpCount(sessionReviewCounts, f)
          /\ data' = updateScore(data, settings, f, NewScoreOf(action, s),
                                 action, now + 1)
          /\ last' = [ op |-> action, file |-> f,
                       first |-> ProjectStatsOf(data, settings, f).totalReviews = 0 ]
    /\ now' = now + 1
    /\ chosen' = NoFile
    /\ UNCHANGED inflight
    /\ UNCHANGED pomodoro
    /\ UNCHANGED << legacyFile, vault, settings, sessionIgnoredProjects, starts >>

Btn1 == ScoreButton("less-often")
Btn2 == ScoreButton("ok")
Btn3 == ScoreButton("more-often")

\* btn5 'Fini': data.json after it
Finish(d, st, f, date) ==
    LET isFirstReview == ProjectStatsOf(d, st, f).totalReviews = 0
        got == GetProjectStats(d, st, f)
    IN IF isFirstReview THEN got
       ELSE RecordReviewAction(IncrementRotationBonus(got, st, f),
                               st, f, "finished", 0, date)

\* btn5 click: 'Fini'
Btn5 ==
    /\ loaded
    /\ chosen # NoFile
    /\ now < MaxClicks
    /\ LET f == chosen IN
          /\ sessionReviewCounts' = BumpCount(sessionReviewCounts, f)
          /\ data' = Finish(data, settings, f, now + 1)
          /\ vault' = [ vault EXCEPT ![f].fmTag = FALSE, ![f].archived = TRUE ]
          /\ last' = [ op |-> "finished", file |-> f,
                       first |-> ProjectStatsOf(data, settings, f).totalReviews = 0 ]
    /\ now' = now + 1
    /\ chosen' = NoFile
    /\ UNCHANGED inflight
    /\ UNCHANGED pomodoro
    /\ UNCHANGED << legacyFile, settings, sessionIgnoredProjects, starts >>

\* mutant: 'Passer' counts as a review of the session and feeds the rotation
SkipAsReview ==
    /\ loaded
    /\ chosen # NoFile
    /\ sessionIgnoredProjects' = sessionIgnoredProjects \cup {chosen}
    /\ sessionReviewCounts' = BumpCount(sessionReviewCounts, chosen)
    /\ data' = IncrementRotationBonus(data, settings, chosen)
    /\ last' = [ op |-> "skip", file |-> chosen, first |-> FALSE ]
    /\ chosen' = NoFile
    /\ UNCHANGED pomodoro
    /\ UNCHANGED << inflight, legacyFile, vault, settings, starts, now >>

\* skipPomodoroBtn click: 'Passer'
Skip ==
    /\ loaded
    /\ chosen # NoFile
    /\ sessionIgnoredProjects' = sessionIgnoredProjects \cup {chosen}
    /\ last' = [ op |-> "skip", file |-> chosen, first |-> FALSE ]
    /\ chosen' = NoFile
    /\ UNCHANGED inflight
    /\ UNCHANGED pomodoro
    /\ UNCHANGED << data, legacyFile, vault, settings, sessionReviewCounts,
                    starts, now >>

\* mutant: with no candidate left, the modal falls back on a skipped file
OpenModalFallback ==
    /\ loaded
    /\ chosen = NoFile
    /\ data' = IF settings.tagsConfigured
               THEN CollectCandidates(data, settings, vault,
                                      sessionIgnoredProjects, 1)
               ELSE data
    /\ LET picked == SelectNext(data, settings, vault, sessionIgnoredProjects,
                                sessionReviewCounts)
       IN chosen' \in IF picked = { NoFile } /\ sessionIgnoredProjects # {}
                      THEN sessionIgnoredProjects
                      ELSE picked
    /\ last' = [ op |-> "open", file |-> chosen', first |-> FALSE ]
    /\ UNCHANGED inflight
    /\ UNCHANGED pomodoro
    /\ UNCHANGED << legacyFile, vault, settings, sessionIgnoredProjects,
                    sessionReviewCounts, starts, now >>

\* onOpen of a new ReviewModal (ribbon, command, or the reopen timer)
OpenModal ==
    /\ loaded
    /\ chosen = NoFile
    /\ data' = IF settings.tagsConfigured
               THEN CollectCandidates(data, settings, vault,
                                      sessionIgnoredProjects, 1)
               ELSE data
    /\ chosen' \in SelectNext(data, settings, vault, sessionIgnoredProjects,
                               sessionReviewCounts)
    /\ last' = [ op |-> "open", file |-> chosen', first |-> FALSE ]
    /\ UNCHANGED inflight
    /\ UNCHANGED pomodoro
    /\ UNCHANGED << legacyFile, vault, settings, sessionIgnoredProjects,
                    sessionReviewCounts, starts, now >>

\* onClose without a click (the user dismisses the modal)
CloseModal ==
    /\ chosen # NoFile
    /\ chosen' = NoFile
    /\ last' = [ op |-> "close", file |-> chosen, first |-> FALSE ]
    /\ UNCHANGED inflight
    /\ UNCHANGED pomodoro
    /\ UNCHANGED << data, legacyFile, vault, settings, sessionIgnoredProjects,
                    sessionReviewCounts, starts, now >>

\* ---------------------------------------------------- startup, migrations
\* a plugin state the startup steps work on: data.json, plugin.settings and
\* the legacy stats.json
PluginState(d, st, lf) == [ d |-> d, st |-> st, lf |-> lf ]

NoLegacyFile == [ exists |-> FALSE, stats |-> createEmptyStatsData ]

\* loadSettings
loadSettings(ps) ==
    LET st == IF HasPayloadSettings(ps.d) THEN ps.d.settings
              ELSE DEFAULT_SETTINGS
    IN IF ~HasPayloadSettings(ps.d) \/ IsLegacy(ps.d)
       THEN PluginState(SaveSettings(ps.d, st), st, ps.lf)
       ELSE PluginState(ps.d, st, ps.lf)

\* migrateStatsToSaveData
migrateStatsToSaveData(ps) ==
    LET flagged == [ ps.st EXCEPT !.statsStoredInData = TRUE ] IN
    IF ps.st.statsStoredInData THEN ps
    ELSE IF HasPayloadStats(ps.d)
    THEN PluginState(SaveSettings(ps.d, flagged), flagged, ps.lf)
    ELSE IF ps.lf.exists
    THEN PluginState(
            SaveSettings(SaveStatsData(ps.d, ps.st, ps.lf.stats), flagged),
            flagged, NoLegacyFile)
    ELSE PluginState(SaveSettings(ps.d, flagged), flagged, ps.lf)

\* migrateScoresToStats, loop body: the score a tagged file without a record
\* is seeded with
InitialScore(st, fm) ==
    IF fm.kind = "number" THEN Clamp(fm.value) ELSE st.defaultScore

\* migrateScoresToStats, loop: the projects after the files f..NumFiles
RECURSIVE SeedProjects(_, _, _, _)
SeedProjects(projects, st, v, f) ==
    IF f > NumFiles THEN projects
    ELSE SeedProjects(
            IF v[f].bodyTag /\ f \notin DOMAIN projects
            THEN WithProject(projects, f,
                             NewProjectStats(InitialScore(st, v[f].fm)))
            ELSE projects,
            st, v, f + 1)

\* mutant: no flag test and no test for an existing record, every tagged file
\* is seeded again
migrateScoresToStatsAgain(ps, v) ==
    LET flagged == [ ps.st EXCEPT !.scoresMigratedToStats = TRUE ]
        sd == StatsOf(ps.d)
        seeded == [ sd EXCEPT !.projects =
                      SeedProjects(<< >>, ps.st, v, 1) ]
    IN PluginState(SaveSettings(SaveStatsData(ps.d, ps.st, seeded), flagged),
                   flagged, ps.lf)

\* migrateScoresToStats
migrateScoresToStats(ps, v) ==
    LET flagged == [ ps.st EXCEPT !.scoresMigratedToStats = TRUE ]
        sd == StatsOf(ps.d)
        seeded == [ sd EXCEPT !.projects = SeedProjects(sd.projects, ps.st, v, 1) ]
    IN IF ps.st.scoresMigratedToStats THEN ps
       ELSE IF ~ps.st.tagsConfigured
       THEN PluginState(SaveSettings(ps.d, flagged), flagged, ps.lf)
       ELSE PluginState(
               SaveSettings(SaveStatsData(ps.d, ps.st, seeded), flagged),
               flagged, ps.lf)

\* mutant: the scores are seeded before the legacy stats.json is relocated
StartupSeedFirst(ps, v) ==
    migrateStatsToSaveData(migrateScoresToStats(loadSettings(ps), v))

\* onload: loadSettings, migrateStatsToSaveData, migrateScoresToStats
Startup(ps, v) ==
    migrateScoresToStats(migrateStatsToSaveData(loadSettings(ps)), v)

\* plugin construction followed by onload (first start or a restart)
Onload ==
    /\ chosen = NoFile
    /\ starts < MaxStarts
    /\ LET ps == Startup(PluginState(data, settings, legacyFile), vault) IN
          /\ data' = ps.d
          /\ settings' = ps.st
          /\ legacyFile' = ps.lf
    /\ sessionIgnoredProjects' = {}
    /\ sessionReviewCounts' = [ f \in Files |-> 0 ]
    /\ starts' = starts + 1
    /\ last' = [ op |-> "onload", file |-> NoFile, first |-> FALSE ]
    /\ inflight' = NoInflight
    /\ UNCHANGED << vault, chosen, now, pomodoro >>

\* -------------------------------------------------------- initial states
\* a record left by earlier sessions: n counted reviews, the last
\* Min(n, HistoryCap) of them in the history (dates up to 0, the past)
Reviewed(score, bonus, n) ==
    LET len == Min(n, HistoryCap) IN
    [ currentScore   |-> score,
      rotationBonus  |-> bonus,
      totalReviews   |-> n,
      lastReviewDate |-> 0,
      reviewHistory  |-> [ i \in 1..len |->
                            [ date |-> i - len, action |-> "ok",
                              scoreAfter |-> score ] ] ]

RECURSIVE SumReviews(_, _)
SumReviews(projects, S) ==
    IF S = {} THEN 0
    ELSE LET f == CHOOSE x \in S : TRUE
         IN projects[f].totalReviews + SumReviews(projects, S \ {f})

StatsWith(projects) ==
    [ projects    |-> projects,
      globalStats |-> [ totalReviews |-> SumReviews(projects, DOMAIN projects),
                        totalPomodoroTime |-> 0 ] ]

\* every file reviewed a few times, scores 50, 60, 70, ...
StatsAllReviewed ==
    StatsWith([ f \in Files |-> Reviewed((40 + 10 * f) * Scale, 0, f) ])

\* file 1 one entry short of the history cap, file 2 reviewed once with the
\* same score, the others without a record
StatsNearCap ==
    StatsWith([ f \in {1, 2} |->
        IF f = 1 THEN Reviewed(90 * Scale, 0, HistoryCap - 1)
        ELSE Reviewed(90 * Scale, 0, 1) ])

\* file 1 reviewed, file 2 seen but never counted, the others without a record
StatsMixed ==
    StatsWith([ f \in {1, 2} |->
        IF f = 1 THEN Reviewed(30 * Scale, 3 * DefaultRotationBonus, 2)
        ELSE NewProjectStats(DefaultScore) ])

InitStats == { StatsAllReviewed, StatsNearCap, StatsMixed }

\* stats.json as the revision of src/main.ts lines 545-837 wrote it: its
\* ProjectStats has no currentScore (the score was in the frontmatter); file 1
\* reviewed twice, file 2 with a record and no review
StatsOldSchema ==
    StatsWith([ f \in {1, 2} |->
        IF f = 1
        THEN [ Reviewed(70 * Scale, 3 * DefaultRotationBonus, 2)
                 EXCEPT !.currentScore = ScoreUndefined ]
        ELSE [ NewProjectStats(DefaultScore)
                 EXCEPT !.currentScore = ScoreUndefined ] ])

Number(x) == [ kind |-> "number", value |-> x ]
Undefined == [ kind |-> "undefined", value |-> 0 ]
NotANumber == [ kind |-> "nan", value |-> 0 ]

\* every file carries the project tag in its body; pertinence_score is
\* 70, absent, 150 (out of range), 70, ...; last_reviewed_date (or the ctime
\* of the file) is f days before the start
VaultBodyTags ==
    [ f \in Files |->
        [ bodyTag |-> TRUE, fmTag |-> FALSE, archived |-> FALSE,
          reviewedAt |-> 0 - f,
          fm |-> CASE f % 3 = 1 -> Number(70 * Scale)
                   [] f % 3 = 2 -> Undefined
                   [] OTHER     -> Number(150 * Scale) ] ]

\* file 1 tagged in its frontmatter with an unparsable score, file 2 tagged in
\* its body with score 0, file 3 archived, the others untagged
VaultMixed ==
    [ f \in Files |->
        [ bodyTag |-> f \in {2, 3}, fmTag |-> f = 1, archived |-> f = 3,
          reviewedAt |-> 0,
          fm |-> CASE f = 1 -> NotANumber
                   [] f = 2 -> Number(0)
                   [] OTHER -> Undefined ] ]

InitVaults == { VaultBodyTags, VaultMixed }

\* settings a user may have saved: the defaults, or a rotation bonus of 2 with
\* a recency penalty weight of 1
SavedSettings(migrated, stored) ==
    { [ DEFAULT_SETTINGS EXCEPT !.scoresMigratedToStats = migrated,
                                !.statsStoredInData = stored ],
      [ DEFAULT_SETTINGS EXCEPT !.scoresMigratedToStats = migrated,
                                !.statsStoredInData = stored,
                                !.rotationBonus = 2 * Scale,
                                !.weightNum = WeightDen ] }

\* no data.json: a fresh install
FreshData ==
    [ layout |-> "none", settings |-> DEFAULT_SETTINGS, hasStats |-> FALSE,
      stats |-> createEmptyStatsData ]

\* data.json of a revision that kept the statistics in stats.json
FlatData ==
    { [ layout |-> "flat", settings |-> st, hasStats |-> FALSE,
        stats |-> createEmptyStatsData ] :
      st \in SavedSettings(TRUE, FALSE) \cup SavedSettings(FALSE, FALSE)
             \cup { [ DEFAULT_SETTINGS EXCEPT !.tagsConfigured = FALSE ] } }

\* data.json written by this revision
UnifiedData ==
    { [ layout |-> "unified", settings |-> st, hasStats |-> TRUE,
        stats |-> sd ] :
      st \in SavedSettings(TRUE, TRUE), sd \in InitStats }

\* the plugin object as constructed, before onload
InitPlugin ==
    /\ vault \in InitVaults
    /\ settings = DEFAULT_SETTINGS
    /\ sessionIgnoredProjects = {}
    /\ sessionReviewCounts = [ f \in Files |-> 0 ]
    /\ chosen = NoFile
    /\ starts = 0
    /\ now = 0
    /\ last = [ op |-> "init", file |-> NoFile, first |-> FALSE ]
    /\ inflight = NoInflight
    /\ pomodoro = NoPomodoro

\* a fresh install, an upgrade from the revision that kept the statistics in
\* stats.json with the score in them, or a vault this revision already ran in
Init ==
    /\ \/ /\ data = FreshData
          /\ legacyFile = NoLegacyFile
       \/ /\ data \in FlatData
          /\ legacyFile \in { NoLegacyFile } \cup
                { [ exists |-> TRUE, stats |-> sd ] : sd \in InitStats }
       \/ /\ data \in UnifiedData
          /\ legacyFile = NoLegacyFile
    /\ InitPlugin

\* an upgrade from the revision whose stats.json has no currentScore
InitUpgrade ==
    /\ data \in { d \in FlatData : d.settings \in SavedSettings(FALSE, FALSE) }
    /\ legacyFile = [ exists |-> TRUE, stats |-> StatsOldSchema ]
    /\ InitPlugin

Next ==
    \/ Onload
    \/ OpenModal
    \/ CloseModal
    \/ Btn1
    \/ Btn2
    \/ Btn3
    \/ Btn5
    \/ Skip

Spec == Init /\ [][Next]_vars

SpecUpgrade == InitUpgrade /\ [][Next]_vars

\* ------------------------------------------------------- failing writes
\* the saveData calls of updateScore on a file that has its record: in
\* updateProjectScore, in incrementRotationBonus, in recordReviewAction
WriteSteps == 1..3

\* updateScore when its k-th saveData rejects: data.json after it.  The
\* rejection is caught and logged; a failed updateProjectScore returns at
\* once, a failed incrementRotationBonus skips recordReviewAction.
updateScoreFailing(d, st, f, newScore, action, date, k) ==
    LET got == GetProjectStats(d, st, f)
        scored == UpdateProjectScore(got, st, f, newScore)
    IN CASE k = 1 -> got
         [] k = 2 -> scored
         [] k = 3 -> IncrementRotationBonus(scored, st, f)

\* btn1 / btn2 / btn3 click during which one saveData rejects; the handler
\* returns normally, the modal closes and the next one opens
ScoreButtonWriteFails ==
    /\ loaded
    /\ chosen # NoFile
    /\ now < MaxClicks
    /\ \E action \in { "less-often", "ok", "more-often" }, k \in WriteSteps :
          LET f == chosen
              s == GetProjectScore(data, settings, f)
              isFirstReview == ProjectStatsOf(data, settings, f).totalReviews = 0
          IN /\ k = 1 \/ ~isFirstReview
             /\ sessionReviewCounts' = BumpCount(sessionReviewCounts, f)
             /\ data' = updateScoreFailing(data, settings, f,
                                           NewScoreOf(action, s), action,
                                           now + 1, k)
             /\ last' = [ op |-> "write-failed", file |-> f,
                          first |-> isFirstReview ]
    /\ now' = now + 1
    /\ chosen' = NoFile
    /\ UNCHANGED inflight
    /\ UNCHANGED pomodoro
    /\ UNCHANGED << legacyFile, vault, settings, sessionIgnoredProjects, starts >>

\* onOpen while every read of data.json rejects: getProjectScore throws and
\* the base score is settings.defaultScore, calculateEffectiveScore gets no
\* rotation bonus, getProjectStats throws and every candidate is filed under
\* the existing projects; the first listed of the greatest effective scores
SelectNextReadFails(st, v, ign, counts) ==
    LET cands == { f \in Files : IsCandidate(v, ign, f) }
        eff(f) == calculateEffectiveScore(st.defaultScore, 0, counts[f],
                                          st.weightNum)
    IN IF ~st.tagsConfigured \/ cands = {} THEN { NoFile }
       ELSE { f \in cands : \A g \in cands :
                \/ eff(f) > eff(g)
                \/ (eff(f) = eff(g) /\ f <= g) }

\* onOpen of a new ReviewModal while the reads of data.json reject
OpenModalReadFails ==
    /\ loaded
    /\ chosen = NoFile
    /\ chosen' \in SelectNextReadFails(settings, vault, sessionIgnoredProjects,
                                        sessionReviewCounts)
    /\ last' = [ op |-> "open-read-failed", file |-> chosen', first |-> FALSE ]
    /\ UNCHANGED inflight
    /\ UNCHANGED pomodoro
    /\ UNCHANGED << data, legacyFile, vault, settings, sessionIgnoredProjects,
                    sessionReviewCounts, starts, now >>

\* the plugin on a vault this revision ran in, with the default settings
InitFail ==
    /\ data \in { d \in UnifiedData :
                    d.settings.rotationBonus = DefaultRotationBonus }
    /\ legacyFile = NoLegacyFile
    /\ InitPlugin

NextFail ==
    \/ Next
    \/ ScoreButtonWriteFails

SpecFail == InitFail /\ [][NextFail]_vars

\* ----------------------------------------------------- the settings tab
\* texts typed in the 'Rotation Bonus' field: -0.1 and a text that is no number
RotationBonusInputs == { Number(0 - DefaultRotationBonus), NotANumber }

\* texts typed in the 'Rapprochement factor' field: 0.5 and 2 (out of range)
RapprochmentInputs == { Number(Scale \div 2), Number(2 * Scale) }

\* the settings tab is visited after a start, before the reviews of the session
TabOpen == loaded /\ last.op \in { "onload", "settings" }

\* 'Rotation Bonus' onChange: any finite number is taken, else 0.1
SetRotationBonus ==
    /\ TabOpen
    /\ \E text \in RotationBonusInputs :
          /\ settings' = [ settings EXCEPT !.rotationBonus =
                             IF text.kind = "number" THEN text.value
                             ELSE DefaultRotationBonus ]
          /\ last' = [ op |-> "settings", file |-> NoFile, first |-> FALSE ]
    /\ data' = SaveSettings(data, settings')
    /\ UNCHANGED pomodoro
    /\ UNCHANGED << inflight, legacyFile, vault, sessionIgnoredProjects,
                    sessionReviewCounts, chosen, starts, now >>

\* 'Rapprochement factor' onChange: a number in [0, 1] is taken, else 0.2
SetRapprochmentFactor ==
    /\ TabOpen
    /\ \E text \in RapprochmentInputs :
          /\ settings' = [ settings EXCEPT !.rapprochmentFactor =
                             IF /\ text.kind = "number"
                                /\ text.value >= 0
                                /\ text.value <= Scale
                             THEN text.value
                             ELSE DefaultRapprochment ]
          /\ last' = [ op |-> "settings", file |-> NoFile, first |-> FALSE ]
    /\ data' = SaveSettings(data, settings')
    /\ UNCHANGED pomodoro
    /\ UNCHANGED << inflight, legacyFile, vault, sessionIgnoredProjects,
                    sessionReviewCounts, chosen, starts, now >>

\* the plugin with its settings tab in use, on a vault this revision ran in
\* with the default settings
InitTab ==
    /\ data \in { d \in UnifiedData :
                    d.settings.rotationBonus = DefaultRotationBonus }
    /\ legacyFile = NoLegacyFile
    /\ InitPlugin
    /\ vault = VaultBodyTags

NextTab ==
    \/ Next
    \/ SetRotationBonus
    \/ SetRapprochmentFactor

SpecTab == InitTab /\ [][NextTab]_vars

\* ------------------------------------- the frontmatter-based review modal
\* settings.ageBonusPerDay ?? 1, a step of the clock counting as one day
AgeBonusPerDay == Scale

\* the score a button reads: fm.pertinence_score, defaultScore when it is
\* absent or not finite
FmScore(v, st, f) ==
    IF v[f].fm.kind = "number" THEN v[f].fm.value ELSE st.defaultScore

\* Math.min(100, Math.max(1, x))
FmClamp(x) == Min(MaxScore, Max(MinScore, x))

\* Math.round(count * weight)
FmPenaltyTimes(count, weightNum) ==
    (2 * count * weightNum + WeightDen) \div (2 * WeightDen)

\* calculateEffectiveScore: age bonus, then the session recency penalty
FmEffectiveScore(baseScore, reviewedAt, count, weightNum, date) ==
    LET start == baseScore + (date - reviewedAt) * AgeBonusPerDay
    IN IF weightNum > 0 /\ count > 0
       THEN ReduceTimes(start, FmPenaltyTimes(count, weightNum))
       ELSE start

\* the effective score onOpen computes for a candidate
FmEffectiveOf(v, st, counts, date, f) ==
    FmEffectiveScore(FmClamp(FmScore(v, st, f)), v[f].reviewedAt, counts[f],
                     st.weightNum, date)

\* candidates.reduce(cur > prev ? cur : prev): the first listed of the
\* candidates with the greatest effective score; NoFile when the modal closes
FmSelect(v, st, ign, counts, date) ==
    LET cands == { f \in Files : IsCandidate(v, ign, f) }
    IN IF ~st.tagsConfigured \/ cands = {} THEN NoFile
       ELSE CHOOSE f \in cands : \A g \in cands :
               \/ FmEffectiveOf(v, st, counts, date, f) >
                      FmEffectiveOf(v, st, counts, date, g)
               \/ /\ FmEffectiveOf(v, st, counts, date, f) =
                        FmEffectiveOf(v, st, counts, date, g)
                  /\ f <= g

\* mutant: the review date is written, the score is not
FmUpdateScoreDateOnly(v, f, newScore, date) ==
    [ v EXCEPT ![f].reviewedAt = date ]

\* updateScore: the vault after processFrontMatter
FmUpdateScore(v, f, newScore, date) ==
    [ v EXCEPT ![f].fm = Number(FmClamp(newScore)), ![f].reviewedAt = date ]

\* the score a button asks for, s being the score it read
FmNewScoreOf(action, s) ==
    IF action = "priority-max" THEN MaxScore ELSE NewScoreOf(action, s)

\* onOpen
FmOpenModal ==
    /\ chosen = NoFile
    /\ chosen' = FmSelect(vault, settings, sessionIgnoredProjects,
                          sessionReviewCounts, now)
    /\ last' = [ op |-> "open", file |-> chosen', first |-> FALSE ]
    /\ UNCHANGED inflight
    /\ UNCHANGED pomodoro
    /\ UNCHANGED << data, legacyFile, vault, settings, sessionIgnoredProjects,
                    sessionReviewCounts, starts, now >>

\* a click on btn1..btn4
FmScoreButton(action) ==
    /\ chosen # NoFile
    /\ now < MaxClicks
    /\ LET f == chosen IN
          /\ sessionReviewCounts' = BumpCount(sessionReviewCounts, f)
          /\ vault' = FmUpdateScore(vault, f,
                          FmNewScoreOf(action, FmScore(vault, settings, f)),
                          now + 1)
          /\ last' = [ op |-> action, file |-> f,
                       first |-> vault[f].fm.kind = "undefined" ]
    /\ now' = now + 1
    /\ chosen' = NoFile
    /\ UNCHANGED inflight
    /\ UNCHANGED pomodoro
    /\ UNCHANGED << data, legacyFile, settings, sessionIgnoredProjects, starts >>

FmBtn1 == FmScoreButton("less-often")
FmBtn2 == FmScoreButton("ok")
FmBtn3 == FmScoreButton("more-often")
FmBtn4 == FmScoreButton("priority-max")

\* btn5 click: 'Fini', the project tags leave the frontmatter and the archive
\* tag enters it
FmBtn5 ==
    /\ chosen # NoFile
    /\ now < MaxClicks
    /\ sessionReviewCounts' = BumpCount(sessionReviewCounts, chosen)
    /\ vault' = [ vault EXCEPT ![chosen].fmTag = FALSE,
                               ![chosen].archived = TRUE ]
    /\ last' = [ op |-> "finished", file |-> chosen,
                 first |-> vault[chosen].fm.kind = "undefined" ]
    /\ now' = now + 1
    /\ chosen' = NoFile
    /\ UNCHANGED inflight
    /\ UNCHANGED pomodoro
    /\ UNCHANGED << data, legacyFile, settings, sessionIgnoredProjects, starts >>

\* the plugin loaded, its settings read from data.json, no modal open
InitFm ==
    /\ data \in FlatData
    /\ settings = data.settings
    /\ legacyFile = NoLegacyFile
    /\ vault \in InitVaults
    /\ sessionIgnoredProjects = {}
    /\ sessionReviewCounts = [ f \in Files |-> 0 ]
    /\ chosen = NoFile
    /\ starts = 1
    /\ now = 0
    /\ last = [ op |-> "init", file |-> NoFile, first |-> FALSE ]
    /\ inflight = NoInflight
    /\ pomodoro = NoPomodoro

NextFm ==
    \/ FmOpenModal
    \/ CloseModal
    \/ FmBtn1
    \/ FmBtn2
    \/ FmBtn3
    \/ FmBtn4
    \/ FmBtn5
    \/ Skip

SpecFm == InitFm /\ [][NextFm]_vars

\* ------------------------------------------------------------------ claims
Projects == StatsOf(data).projects

ReviewOps == { "less-often", "ok", "more-often", "finished" }

\* C1: every currentScore stored in the stats payload lies in [1, 100]
ScoreInRange ==
    \A f \in DOMAIN Projects :
        /\ Projects[f].currentScore >= MinScore
        /\ Projects[f].currentScore <= MaxScore

\* the step is a click on a review button (only those advance the clock)
Click == now' = now + 1

ProjectsAfter == StatsOf(data').projects

\* the candidates of the selection that would run now
Candidates == { f \in Files : IsCandidate(vault, sessionIgnoredProjects, f) }

\* the selection classifies f as new
ClassifiedNew(f) ==
    /\ f \in Candidates
    /\ f \in DOMAIN Projects
    /\ Projects[f].totalReviews = 0

Effective(f) == EffectiveOf(StatsOf(data), settings, sessionReviewCounts, f)

\* C2: while a candidate is new, the file the modal shows is a new one
NewItemPriority ==
    (chosen # NoFile /\ \E f \in Files : ClassifiedNew(f))
        => Projects[chosen].totalReviews = 0

\* C2 witness: a new file is shown although a reviewed candidate scores higher
NewItemPriorityWitness ==
    /\ chosen # NoFile
    /\ last.op = "open"
    /\ Projects[chosen].totalReviews = 0
    /\ \E g \in Candidates :
          /\ Projects[g].totalReviews > 0
          /\ Effective(g) > Effective(chosen)

\* C3: after a review action on a file that was new, the next selection does
\* not classify that file as new
NewItemLeavesNew ==
    (last.op \in ReviewOps /\ last.first) => ~ClassifiedNew(last.file)

\* C4: a counted review of A sets A's rotationBonus to 0 and adds exactly the
\* rotationBonus setting to every other record
RotationBonusStep ==
    [][ (Click /\ ~last'.first) =>
          /\ ProjectsAfter[last'.file].rotationBonus = 0
          /\ DOMAIN ProjectsAfter = DOMAIN Projects
          /\ \A g \in DOMAIN Projects \ { last'.file } :
                ProjectsAfter[g].rotationBonus =
                    Projects[g].rotationBonus + settings.rotationBonus ]_vars

\* C4 witness: a counted review among three records, the others hold a bonus
RotationBonusWitness ==
    /\ last.op \in ReviewOps
    /\ ~last.first
    /\ Cardinality(DOMAIN Projects) >= 3
    /\ Projects[last.file].rotationBonus = 0
    /\ \A g \in DOMAIN Projects \ { last.file } :
          Projects[g].rotationBonus >= settings.rotationBonus

\* C5: no history is longer than 100 entries, and a counted review appends
\* its entry last, dropping the oldest entry when the history was full
HistoryCapped ==
    /\ [](\A f \in DOMAIN Projects :
            Len(Projects[f].reviewHistory) <= HistoryCap)
    /\ [][ (Click /\ ~last'.first) =>
            LET h == Projects[last'.file].reviewHistory
                h2 == ProjectsAfter[last'.file].reviewHistory
                dropped == Len(h) + 1 - Len(h2)
            IN /\ Len(h2) = Min(Len(h) + 1, HistoryCap)
               /\ h2[Len(h2)].date = now'
               /\ h2[Len(h2)].action = last'.op
               /\ \A i \in 1..(Len(h2) - 1) : h2[i] = h[i + dropped] ]_vars

\* C5 witness: a file reviewed more than 100 times whose history is full
HistoryCappedWitness ==
    /\ last.op \in ReviewOps
    /\ ~last.first
    /\ Projects[last.file].totalReviews > HistoryCap
    /\ Len(Projects[last.file].reviewHistory) = HistoryCap
    /\ Projects[last.file].reviewHistory[HistoryCap].date = now

SecondClickCounted ==
    [][ ( /\ Click
          /\ last'.op = "less-often"
          /\ sessionReviewCounts[chosen] = 1
          /\ Projects[chosen].currentScore = DefaultScore
          /\ Projects[chosen].totalReviews = 0
          /\ Projects[chosen].reviewHistory = << >> ) =>
          LET f == chosen
              after == (402 * Scale) \div 10
          IN /\ ProjectsAfter[f].currentScore = after
             /\ ProjectsAfter[f].totalReviews = 1
             /\ Len(ProjectsAfter[f].reviewHistory) = 1
             /\ ProjectsAfter[f].reviewHistory[1].action = "less-often"
             /\ ProjectsAfter[f].reviewHistory[1].scoreAfter = after
             /\ \A g \in DOMAIN Projects \ { f } :
                   ProjectsAfter[g].rotationBonus =
                       Projects[g].rotationBonus + settings.rotationBonus ]_vars

MigrationIdempotent ==
    LET ps == PluginState(data, settings, legacyFile)
        once == Startup(ps, vault)
        twice == Startup(once, vault)
    IN /\ twice.d = once.d
       /\ twice.lf = once.lf
       /\ settings.statsStoredInData => migrateStatsToSaveData(ps) = ps
       /\ settings.scoresMigratedToStats => migrateScoresToStats(ps, vault) = ps

\* C9 witness: the plugin started twice on a store the first start migrated
\* from stats.json, and records were seeded from the frontmatter
MigrationIdempotentWitness ==
    /\ starts = 2
    /\ last.op = "onload"
    /\ settings.statsStoredInData
    /\ settings.scoresMigratedToStats
    /\ ~legacyFile.exists
    /\ \E f \in DOMAIN Projects : Projects[f].totalReviews > 0
    /\ \E f \in DOMAIN Projects :
          Projects[f].totalReviews = 0 /\ Projects[f].currentScore = MaxScore

\* C10: after 'Priorite Max' the pertinence_score of the file is exactly 100
PriorityMaxIs100 ==
    last.op = "priority-max" => vault[last.file].fm = Number(MaxScore)

\* C10 witness: 'Priorite Max' clicked on a file whose score an earlier
\* 'less often' had lowered
PriorityMaxIs100Witness ==
    /\ last.op = "priority-max"
    /\ sessionReviewCounts[last.file] >= 2
    /\ vault[last.file].fm = Number(MaxScore)
    /\ vault[last.file].reviewedAt = now

\* 40.2, 52.16, 42 and 53.6 points
After50Less == (402 * Scale) \div 10
After50LessMore == (5216 * Scale) \div 100
Spec50Less == 42 * Scale
Spec50LessMore == (536 * Scale) \div 10

\* the two clicks of C11 with the scores a and b they are to produce: 'less
\* often' on the default score 50 stores a, 'more often' on a stores b
LessThenMoreYields(a, b) ==
        /\ (Click /\ last'.op = "less-often"
                 /\ Projects[chosen].currentScore = DefaultScore)
            => ProjectsAfter[chosen].currentScore = a
        /\ (Click /\ last'.op = "more-often"
                 /\ Projects[chosen].currentScore = a)
            => /\ ProjectsAfter[chosen].currentScore = b
               /\ b # DefaultScore

\* C11 (as stated): from score 50, 'less often' stores 42 and the following
\* 'more often' stores 53.6
LessThenMoreSpec == [][LessThenMoreYields(Spec50Less, Spec50LessMore)]_vars

\* C11 (amended): from score 50, 'less often' stores 40.2 and the following
\* 'more often' stores 52.16, not 50
LessThenMore == [][LessThenMoreYields(After50Less, After50LessMore)]_vars

\* C11 witness: 'more often' after an earlier click on the same file brought
\* the score to 52.16
LessThenMoreWitness ==
    /\ last.op = "more-often"
    /\ sessionReviewCounts[last.file] >= 2
    /\ Projects[last.file].currentScore = After50LessMore

\* C12: a selection that finds no candidate shows no file and leaves
\* data.json, the ignored set and the session review counts as they were
EmptySelection ==
    [][ (last'.op = "open" /\ Candidates = {}) =>
          /\ chosen' = NoFile
          /\ last'.file = NoFile
          /\ data' = data
          /\ sessionIgnoredProjects' = sessionIgnoredProjects
          /\ sessionReviewCounts' = sessionReviewCounts ]_vars

\* C12 witness: the modal opened on a vault whose tagged files are all
\* skipped or archived, one archived file having no record
EmptySelectionWitness ==
    /\ last.op = "open"
    /\ last.file = NoFile
    /\ settings.tagsConfigured
    /\ sessionIgnoredProjects # {}
    /\ Candidates = {}
    /\ \E f \in Files : HasProjectTag(vault, f) /\ f \notin DOMAIN Projects

\* C13: the file shown is never one skipped in this session, and the ignored
\* set only grows until the plugin starts again
SkippedStaysOut ==
    /\ [](chosen # NoFile => chosen \notin sessionIgnoredProjects)
    /\ [][ starts' = starts =>
             sessionIgnoredProjects \subseteq sessionIgnoredProjects' ]_vars

\* C13 witness: a reviewed file is shown while a new file and a reviewed file
\* that would otherwise come first are skipped
SkippedStaysOutWitness ==
    /\ chosen # NoFile
    /\ Projects[chosen].totalReviews > 0
    /\ \E g \in sessionIgnoredProjects :
          /\ HasProjectTag(vault, g) /\ ~vault[g].archived
          /\ Projects[g].totalReviews = 0
    /\ \E g \in sessionIgnoredProjects :
          /\ HasProjectTag(vault, g) /\ ~vault[g].archived
          /\ Projects[g].totalReviews > 0
          /\ Effective(g) > Effective(chosen)

\* C14: 'Passer' leaves data.json and the session review counts unchanged
SkipIsNoReview ==
    [][ last'.op = "skip" =>
          /\ data' = data
          /\ sessionReviewCounts' = sessionReviewCounts ]_vars

\* C14 witness: a file skipped while other files have records
SkipIsNoReviewWitness ==
    /\ last.op = "skip"
    /\ last.file \in sessionIgnoredProjects
    /\ sessionReviewCounts[last.file] = 0
    /\ Cardinality(DOMAIN Projects) >= 2
    /\ \E g \in DOMAIN Projects : Projects[g].totalReviews > 0

ScoreOps == { "less-often", "ok", "more-often" }

\* C16: a selection leaves every existing record as it was, and a score
\* button stores the score computed from the stored currentScore alone
PenaltyNotPersisted ==
    [][ /\ last'.op = "open" =>
             \A f \in DOMAIN Projects : ProjectsAfter[f] = Projects[f]
        /\ (Click /\ last'.op \in ScoreOps) =>
             ProjectsAfter[chosen].currentScore =
                 Clamp(NewScoreOf(last'.op, Projects[chosen].currentScore))
      ]_vars

\* C16 witness: 'less often' on a reviewed file shown a second time in the
\* session, its effective score then lowered by the recency penalty
PenaltyNotPersistedWitness ==
    /\ last.op = "less-often"
    /\ ~last.first
    /\ sessionReviewCounts[last.file] >= 2
    /\ settings.weightNum > 0
    /\ Effective(last.file) < Projects[last.file].currentScore

\* the record getProjectStats creates
FreshRecord ==
    [ currentScore   |-> settings.defaultScore,
      rotationBonus  |-> 0,
      totalReviews   |-> 0,
      lastReviewDate |-> 0,
      reviewHistory  |-> << >> ]

\* C19: getProjectStats on a file without a record stores a record with the
\* default score, no bonus, no review, no date and no history, and changes
\* nothing else; on a file with a record it returns it and data.json stays
LazyCreation ==
    loaded =>
      \A f \in Files :
        LET d2 == GetProjectStats(data, settings, f)
            after == StatsOf(d2)
        IN IF f \in DOMAIN Projects
           THEN /\ d2 = data
                /\ ProjectStatsOf(data, settings, f) = Projects[f]
           ELSE /\ after.projects[f] = FreshRecord
                /\ ProjectStatsOf(data, settings, f) = FreshRecord
                /\ DOMAIN after.projects = DOMAIN Projects \cup { f }
                /\ \A g \in DOMAIN Projects : after.projects[g] = Projects[g]
                /\ after.globalStats = StatsOf(data).globalStats
                /\ d2.settings = data.settings

\* C19 witness: the modal shows a file whose record the selection created
\* (its frontmatter score 150 would have been seeded as 100) beside records
\* that were there before
LazyCreationWitness ==
    /\ last.op = "open"
    /\ chosen # NoFile
    /\ vault[chosen].fm = Number(150 * Scale)
    /\ Projects[chosen] = FreshRecord
    /\ \E g \in DOMAIN Projects : Projects[g].totalReviews > 0

\* C15: 'less often' and 'more often' close the fraction of the gap that the
\* settings tab saved as the rapprochement factor
SavedFactorApplies ==
    [][ /\ (Click /\ last'.op = "less-often") =>
             ProjectsAfter[chosen].currentScore =
                 Clamp(Minus(Projects[chosen].currentScore,
                             MulFrac(Minus(Projects[chosen].currentScore,
                                           MinScore),
                                     settings.rapprochmentFactor)))
        /\ (Click /\ last'.op = "more-often") =>
             ProjectsAfter[chosen].currentScore =
                 Clamp(Plus(Projects[chosen].currentScore,
                            MulFrac(Minus(MaxScore,
                                          Projects[chosen].currentScore),
                                    settings.rapprochmentFactor))) ]_vars

\* C17: the rotationBonus of a record only decreases when a counted review of
\* that record resets it
RotationBonusMonotone ==
    [][ \A f \in DOMAIN Projects \cap DOMAIN ProjectsAfter :
          \/ ProjectsAfter[f].rotationBonus >= Projects[f].rotationBonus
          \/ Click /\ last'.file = f /\ ~last'.first ]_vars

\* C18: no step removes a record from the stats payload
RecordsKept ==
    [][ DOMAIN Projects \subseteq DOMAIN ProjectsAfter ]_vars

\* C18 witness: a file archived by 'Fini' keeps its record, the settings
\* having been saved from the tab in between
RecordsKeptWitness ==
    /\ last.op = "finished"
    /\ vault[last.file].archived
    /\ last.file \in DOMAIN Projects
    /\ Cardinality(DOMAIN Projects) >= 3
    /\ settings.rotationBonus < 0
    /\ data.settings = settings

\* C20: a review click during which a write fails leaves data.json as it
\* was before the click
WriteFailureAtomic ==
    [][ last'.op = "write-failed" => data' = data ]_vars

\* the plugin while reads of data.json may reject
NextRead ==
    \/ Next
    \/ OpenModalReadFails

SpecRead == InitFail /\ [][NextRead]_vars

\* C21: a review click during which a write fails leaves the modal on its
\* file; the next selection does not start
WriteFailureHoldsItem ==
    [][ last'.op = "write-failed" => chosen' = chosen ]_vars

\* data.json with its stats payload read as empty
WithEmptyStats(d) ==
    [ d EXCEPT !.hasStats = FALSE, !.stats = createEmptyStatsData ]

\* C22: a selection whose reads of data.json fail chooses as it would on an
\* empty stats payload (no project, aggregates 0)
ReadFailureFallsBack ==
    [][ last'.op = "open-read-failed" =>
          chosen' \in SelectNext(WithEmptyStats(data), settings, vault,
                                 sessionIgnoredProjects, sessionReviewCounts)
      ]_vars

\* the settings the user chooses (the migration flags left out)
UserSettings(st) ==
    << st.defaultScore, st.rotationBonus, st.rapprochmentFactor, st.weightNum,
       st.tagsConfigured >>

\* C26: a start that finds stats.json and no stats in data.json leaves every
\* record and the totals of stats.json in data.json, keeps the user's
\* settings, removes stats.json and persists the flag that ends the
\* relocation; the flag is never cleared afterwards
LegacyRelocated ==
    [][ /\ (starts' = starts + 1 /\ legacyFile.exists
                                 /\ ~HasPayloadStats(data)) =>
             /\ HasPayloadStats(data')
             /\ \A f \in DOMAIN legacyFile.stats.projects :
                   /\ f \in DOMAIN ProjectsAfter
                   /\ ProjectsAfter[f] = legacyFile.stats.projects[f]
             /\ StatsOf(data').globalStats = legacyFile.stats.globalStats
             /\ UserSettings(settings') = UserSettings(data.settings)
             /\ data'.settings = settings'
             /\ settings'.statsStoredInData
             /\ ~legacyFile'.exists
        /\ (loaded /\ settings.statsStoredInData) =>
             (settings'.statsStoredInData /\ data'.settings.statsStoredInData)
      ]_vars

\* the first start relocated stats.json (file 1 reviewed there), seeded file 3
\* from its frontmatter score and kept a rotation bonus of 2
LegacyRelocatedWitness ==
    /\ starts = 1
    /\ last.op = "onload"
    /\ ~legacyFile.exists
    /\ settings.rotationBonus = 2 * Scale
    /\ 1 \in DOMAIN Projects /\ Projects[1].totalReviews > 0
    /\ 3 \in DOMAIN Projects /\ Projects[3].totalReviews = 0
                             /\ Projects[3].currentScore = MaxScore

\* ------------------------------------------- seeding, frontmatter tags
\* file 1 carries the project tag in its frontmatter only and a frontmatter
\* score of 80; the other files carry the tag in their body
VaultFrontmatterTag ==
    [ f \in Files |->
        [ bodyTag |-> f # 1, fmTag |-> f = 1, archived |-> FALSE,
          reviewedAt |-> 0 - f,
          fm |-> CASE f = 1 -> Number(80 * Scale)
                   [] f = 2 -> Number(70 * Scale)
                   [] OTHER -> Undefined ] ]

\* a fresh install or an upgrade from the revision that kept the statistics
\* in stats.json, in a vault with a project tagged in its frontmatter
InitSeed ==
    /\ \/ /\ data = FreshData
          /\ legacyFile = NoLegacyFile
       \/ /\ data \in FlatData
          /\ legacyFile \in { NoLegacyFile } \cup
                { [ exists |-> TRUE, stats |-> sd ] : sd \in InitStats }
    /\ vault = VaultFrontmatterTag
    /\ settings = DEFAULT_SETTINGS
    /\ sessionIgnoredProjects = {}
    /\ sessionReviewCounts = [ f \in Files |-> 0 ]
    /\ chosen = NoFile
    /\ starts = 0
    /\ now = 0
    /\ last = [ op |-> "init", file |-> NoFile, first |-> FALSE ]
    /\ inflight = NoInflight
    /\ pomodoro = NoPomodoro

SpecSeed == InitSeed /\ [][Next]_vars

\* the plugin state a start hands to migrateScoresToStats
BeforeSeeding ==
    migrateStatsToSaveData(loadSettings(PluginState(data, settings, legacyFile)))

\* C27: a start that seeds the scores gives every file with the project tag
\* and no record a record with the clamped frontmatter score (defaultScore
\* without a finite one) and no review, and keeps every record it found
SeedingAddsRecords ==
    [][ ( /\ starts' = starts + 1
          /\ ~BeforeSeeding.st.scoresMigratedToStats
          /\ BeforeSeeding.st.tagsConfigured ) =>
        LET before == StatsOf(BeforeSeeding.d).projects IN
          /\ \A f \in Files :
                (HasProjectTag(vault, f) /\ f \notin DOMAIN before) =>
                   /\ f \in DOMAIN ProjectsAfter
                   /\ ProjectsAfter[f].totalReviews = 0
                   /\ ProjectsAfter[f].currentScore =
                        IF vault[f].fm.kind = "number"
                        THEN Clamp(vault[f].fm.value)
                        ELSE BeforeSeeding.st.defaultScore
          /\ \A f \in DOMAIN before : ProjectsAfter[f] = before[f]
      ]_vars

\* the reference transform of a score s under the factor fac
ReferenceScore(action, s, fac) ==
    CASE action = "less-often" ->
            Clamp(Minus(s, MulFrac(Minus(s, MinScore), fac)))
      [] action = "ok"         -> Clamp(s)
      [] action = "more-often" ->
            Clamp(Plus(s, MulFrac(Minus(MaxScore, s), fac)))

\* C28: with a rapprochement factor in [0, 1] in the settings, a score button
\* stores the reference transform of the stored score under that factor;
\* 'less often' never raises the score and leaves 1 alone, 'more often' never
\* lowers it and leaves 100 alone
TransformMatchesReference ==
    [][ \A a \in ScoreOps :
          ( /\ Click
            /\ last'.op = a
            /\ settings.rapprochmentFactor >= 0
            /\ settings.rapprochmentFactor <= Scale ) =>
          LET s == Projects[chosen].currentScore
              t == ProjectsAfter[chosen].currentScore
          IN /\ t = ReferenceScore(a, s, settings.rapprochmentFactor)
             /\ a = "less-often" => (t <= s /\ (s = MinScore => t = s))
             /\ a = "more-often" => (t >= s /\ (s = MaxScore => t = s))
      ]_vars

\* C29: when every candidate has been reviewed, the file the modal shows has
\* the greatest effective score of all candidates and is the first listed of
\* those that share it
MaxEffectiveChosen ==
    ( /\ chosen # NoFile
      /\ last.op = "open"
      /\ \A f \in Candidates : Projects[f].totalReviews > 0 ) =>
    \A g \in Candidates :
        \/ Effective(chosen) > Effective(g)
        \/ (Effective(chosen) = Effective(g) /\ chosen <= g)

\* C29 witness: the shown file beats a candidate whose stored score is higher
\* and one listed before it, by its effective score
MaxEffectiveChosenWitness ==
    /\ chosen # NoFile
    /\ last.op = "open"
    /\ \A f \in Candidates : Projects[f].totalReviews > 0
    /\ \E g \in Candidates :
          /\ Projects[g].currentScore > Projects[chosen].currentScore
          /\ Effective(g) < Effective(chosen)
    /\ \E g \in Candidates : g < chosen

\* the candidates a selection step classifies as new
NewAfter == { f \in Candidates : ProjectsAfter[f].totalReviews = 0 }

\* C30: a selection that finds new candidates shows the new candidate with
\* the least basename, and after a review of a new file the next selection
\* moves on to another new file while one is left
NewVisitedInNameOrder ==
    [][ /\ (last'.op = "open" /\ chosen' # NoFile /\ NewAfter # {}) =>
             /\ chosen' \in NewAfter
             /\ \A g \in NewAfter : Basename(chosen') <= Basename(g)
        /\ ( /\ last.op \in ScoreOps
             /\ last.first
             /\ last'.op = "open"
             /\ NewAfter \ { last.file } # {} ) => chosen' # last.file
      ]_vars

\* ------------------------------------ handlers step by step (the awaits)
\* Every store operation awaits loadStatsData, modifies the object it got,
\* and calls saveStatsData, which awaits loadPersistedContainer before it
\* awaits saveData: the handler is suspended between the modification and the
\* write. saveSettings is suspended between its read and its write as well.

\* review clicks followed step by step
MaxStepClicks == 2

\* the stages of updateScore after which a store operation starts
ReadyPcs == { "begun", "score-written", "bonus-written" }

\* the stages of updateScore at which modified stats wait for their write
ModifiedPcs == { "score-modified", "bonus-modified", "record-modified" }

\* btn1 / btn2 / btn3 click up to the first store operation of updateScore:
\* getProjectScore, the session count, getProjectStats (isFirstReview)
ReviewBegin(action) ==
    /\ loaded
    /\ chosen # NoFile
    /\ now < MaxStepClicks
    /\ inflight.tx.pc = "idle"
    /\ LET f == chosen
           s == GetProjectScore(data, settings, f)
       IN /\ sessionReviewCounts' = BumpCount(sessionReviewCounts, f)
          /\ data' = GetProjectStats(data, settings, f)
          /\ inflight' = [ inflight EXCEPT !.tx =
                [ pc |-> "begun", file |-> f, action |-> action,
                  newScore |-> NewScoreOf(action, s),
                  first |-> ProjectStatsOf(data, settings, f).totalReviews = 0,
                  sd |-> createEmptyStatsData ] ]
    /\ now' = now + 1
    /\ UNCHANGED pomodoro
    /\ UNCHANGED << legacyFile, vault, settings, sessionIgnoredProjects,
                    chosen, starts, last >>

\* updateProjectScore, incrementRotationBonus or recordReviewAction up to its
\* call of saveStatsData: the stats are loaded and modified in memory
StoreLoadModify ==
    /\ inflight.tx.pc \in ReadyPcs
    /\ LET tx == inflight.tx
           after ==
             CASE tx.pc = "begun" ->
                    UpdateProjectScore(data, settings, tx.file, tx.newScore)
               [] tx.pc = "score-written" ->
                    IncrementRotationBonus(data, settings, tx.file)
               [] tx.pc = "bonus-written" ->
                    RecordReviewAction(data, settings, tx.file, tx.action,
                                       tx.newScore, now)
           pc == CASE tx.pc = "begun"         -> "score-modified"
                   [] tx.pc = "score-written" -> "bonus-modified"
                   [] tx.pc = "bonus-written" -> "record-modified"
       IN inflight' = [ inflight EXCEPT !.tx.pc = pc,
                                        !.tx.sd = StatsOf(after) ]
    /\ UNCHANGED pomodoro
    /\ UNCHANGED << data, legacyFile, vault, settings, sessionIgnoredProjects,
                    sessionReviewCounts, chosen, starts, now, last >>

\* saveStatsData from its read of the container to saveData; after the last
\* store operation of updateScore the handler closes the modal
StoreWrite ==
    /\ inflight.tx.pc \in ModifiedPcs
    /\ LET tx == inflight.tx
           done == \/ tx.pc = "record-modified"
                   \/ (tx.pc = "score-modified" /\ tx.first)
           pc == CASE tx.pc = "score-modified" -> "score-written"
                   [] tx.pc = "bonus-modified" -> "bonus-written"
                   [] OTHER                    -> "idle"
       IN /\ data' = SaveStatsData(data, settings, tx.sd)
          /\ IF done
             THEN /\ inflight' = [ inflight EXCEPT !.tx = IdleTx ]
                  /\ chosen' = NoFile
                  /\ last' = [ op |-> tx.action, file |-> tx.file,
                               first |-> tx.first ]
             ELSE /\ inflight' = [ inflight EXCEPT !.tx.pc = pc ]
                  /\ UNCHANGED << chosen, last >>
    /\ UNCHANGED pomodoro
    /\ UNCHANGED << legacyFile, vault, settings, sessionIgnoredProjects,
                    sessionReviewCounts, starts, now >>

\* the rotation bonuses the user switches between in the settings tab
StepBonuses == { DefaultRotationBonus, 2 * Scale }

\* 'Rotation Bonus' onChange up to the await inside saveSettings: the setting
\* is changed in memory and the container is read; the changes followed are
\* those made while a review is being stored
SaveSettingsBegin ==
    /\ loaded
    /\ inflight.tx.pc # "idle"
    /\ inflight.save.pc = "idle"
    /\ \E v \in StepBonuses \ { settings.rotationBonus } :
          settings' = [ settings EXCEPT !.rotationBonus = v ]
    /\ inflight' = [ inflight EXCEPT !.save =
                       [ pc |-> "loaded", payload |-> data ] ]
    /\ UNCHANGED << data, pomodoro, legacyFile, vault, sessionIgnoredProjects,
                    sessionReviewCounts, chosen, starts, now, last >>

\* saveSettings after its await: the payload it read goes back to data.json
\* with the settings of the moment
SaveSettingsWrite ==
    /\ inflight.save.pc = "loaded"
    /\ data' = SaveSettings(inflight.save.payload, settings)
    /\ inflight' = [ inflight EXCEPT !.save = IdleSave ]
    /\ UNCHANGED pomodoro
    /\ UNCHANGED << legacyFile, vault, settings, sessionIgnoredProjects,
                    sessionReviewCounts, chosen, starts, now, last >>

\* a vault this revision ran in, every project reviewed before
InitSteps ==
    /\ data \in { d \in UnifiedData :
                    /\ d.settings.rotationBonus = DefaultRotationBonus
                    /\ d.stats = StatsAllReviewed }
    /\ legacyFile = NoLegacyFile
    /\ InitPlugin
    /\ vault = VaultBodyTags

NextSteps ==
    \/ Onload
    \/ OpenModal
    \/ \E action \in ScoreOps : ReviewBegin(action)
    \/ StoreLoadModify
    \/ StoreWrite
    \/ SaveSettingsBegin
    \/ SaveSettingsWrite

SpecSteps == InitSteps /\ [][NextSteps]_vars

\* C23: while a store operation holds modified stats that are not written
\* yet, the only step that changes data.json is the write of those stats
NoWriteBeforeSave ==
    [][ inflight.tx.pc \in ModifiedPcs =>
          (data' = data \/ inflight'.tx.pc \notin ModifiedPcs) ]_vars

\* C24: the write that stores the new score of a counted review also stores
\* the raised totalReviews of the file and the raised rotation bonus of the
\* other records
ReviewWrittenAtOnce ==
    [][ ( /\ inflight.tx.pc = "score-modified"
          /\ ~inflight.tx.first
          /\ inflight'.tx.pc # "score-modified" ) =>
        LET f == inflight.tx.file IN
          /\ ProjectsAfter[f].currentScore = Clamp(inflight.tx.newScore)
          /\ ProjectsAfter[f].totalReviews = Projects[f].totalReviews + 1
          /\ \A g \in DOMAIN Projects \ { f } :
                ProjectsAfter[g].rotationBonus =
                    Projects[g].rotationBonus + settings.rotationBonus
      ]_vars

\* ------------------- migrateScores of the earlier revision, file by file
\* DEFAULT_SETTINGS of the earlier revision, with its migration flag
EarlierSettings(normalised) ==
    [ defaultScore |-> DefaultScore, rotationBonus |-> DefaultRotationBonus,
      weightNum |-> DefaultWeightNum, tagsConfigured |-> TRUE,
      scoresNormalised |-> normalised ]

\* data.json of the earlier revision: the settings alone
EarlierData(normalised) ==
    [ layout |-> "flat", settings |-> EarlierSettings(normalised),
      hasStats |-> FALSE, stats |-> createEmptyStatsData ]

\* pertinence_score values written before the scores were kept in [1, 100]
OldScores == { Number(200 * Scale), Number(100 * Scale), Undefined }

\* vaults whose scores were never normalised
ScaleVaults ==
    { [ f \in Files |->
          [ bodyTag |-> TRUE, fmTag |-> FALSE, archived |-> FALSE,
            reviewedAt |-> 0 - f, fm |-> fms[f] ] ] :
      fms \in [ Files -> OldScores ] }

\* first pass: the greatest finite pertinence_score, defaultScore if none > 0
OldMax(v, st) ==
    LET vals == { v[f].fm.value : f \in { g \in Files : v[g].fm.kind = "number" } }
        m == IF vals = {} THEN 0
             ELSE CHOOSE x \in vals : \A y \in vals : x >= y
    IN IF m <= 0 THEN st.defaultScore ELSE m

\* newScore = 1 + (oldScore / oldMax) * 99, to three decimals (the product
\* is kept below 2^31)
ScaleScore(oldScore, oldMax) ==
    Scale + (oldScore * 99 * (Scale \div 10)) \div (oldMax \div 10)

\* second pass, one file: processFrontMatter writes the rescaled score
ScaleFileIn(v, f, oldMax) ==
    IF v[f].fm.kind = "number"
    THEN [ v EXCEPT ![f].fm = Number(ScaleScore(v[f].fm.value, oldMax)) ]
    ELSE v

\* migrateScores run from its first line to its last on the vault v
RECURSIVE ScaleFrom(_, _, _)
ScaleFrom(v, f, oldMax) ==
    IF f > NumFiles THEN v
    ELSE ScaleFrom(ScaleFileIn(v, f, oldMax), f + 1, oldMax)

\* onload up to the second pass of migrateScores: the flag is unset
ScaleBegin ==
    /\ inflight.mig.pc = "idle"
    /\ starts < MaxStarts
    /\ ~settings.scoresNormalised
    /\ inflight' = [ inflight EXCEPT !.mig =
                       [ pc |-> "loop", next |-> 1,
                         oldMax |-> OldMax(vault, settings),
                         from |-> IF inflight.mig.from = << >> THEN vault
                                  ELSE inflight.mig.from ] ]
    /\ starts' = starts + 1
    /\ last' = [ op |-> "onload", file |-> NoFile, first |-> FALSE ]
    /\ UNCHANGED pomodoro
    /\ UNCHANGED << data, legacyFile, vault, settings, sessionIgnoredProjects,
                    sessionReviewCounts, chosen, now >>

\* second pass of migrateScores, one iteration
ScaleFile ==
    /\ inflight.mig.pc = "loop"
    /\ inflight.mig.next <= NumFiles
    /\ vault' = ScaleFileIn(vault, inflight.mig.next, inflight.mig.oldMax)
    /\ inflight' = [ inflight EXCEPT !.mig.next = @ + 1 ]
    /\ UNCHANGED pomodoro
    /\ UNCHANGED << data, legacyFile, settings, sessionIgnoredProjects,
                    sessionReviewCounts, chosen, starts, now, last >>

\* end of migrateScores: the flag is set and saved
ScaleFinish ==
    /\ inflight.mig.pc = "loop"
    /\ inflight.mig.next > NumFiles
    /\ settings' = [ settings EXCEPT !.scoresNormalised = TRUE ]
    /\ data' = [ data EXCEPT !.settings = settings' ]
    /\ inflight' = [ inflight EXCEPT !.mig.pc = "done" ]
    /\ UNCHANGED << pomodoro, legacyFile, vault, sessionIgnoredProjects,
                    sessionReviewCounts, chosen, starts, now, last >>

\* the application quits while migrateScores is in its second pass; the
\* files written so far stay written, the flag is not saved
ScaleInterrupt ==
    /\ inflight.mig.pc = "loop"
    /\ inflight' = [ inflight EXCEPT !.mig.pc = "idle", !.mig.next = 0,
                                     !.mig.oldMax = 0 ]
    /\ last' = [ op |-> "interrupted", file |-> NoFile, first |-> FALSE ]
    /\ UNCHANGED pomodoro
    /\ UNCHANGED << data, legacyFile, vault, settings, sessionIgnoredProjects,
                    sessionReviewCounts, chosen, starts, now >>

\* the earlier revision before its first start on a vault of old scores
InitScale ==
    /\ data = EarlierData(FALSE)
    /\ settings = data.settings
    /\ legacyFile = NoLegacyFile
    /\ vault \in ScaleVaults
    /\ sessionIgnoredProjects = {}
    /\ sessionReviewCounts = [ f \in Files |-> 0 ]
    /\ chosen = NoFile
    /\ starts = 0
    /\ now = 0
    /\ last = [ op |-> "init", file |-> NoFile, first |-> FALSE ]
    /\ inflight = NoInflight
    /\ pomodoro = NoPomodoro

NextScale ==
    \/ ScaleBegin
    \/ ScaleFile
    \/ ScaleFinish
    \/ ScaleInterrupt

SpecScale == InitScale /\ [][NextScale]_vars

\* C25: once the flag of migrateScores is saved, whatever interruptions came
\* before, the vault holds the scores one uninterrupted run would have written
InterruptedMigrationSame ==
    inflight.mig.pc = "done" =>
        vault = ScaleFrom(inflight.mig.from, 1,
                          OldMax(inflight.mig.from, settings))

\* the 'less often' reduction of the button applied k times to x
RECURSIVE LessOftenTimes(_, _)
LessOftenTimes(x, k) ==
    IF k <= 0 THEN x ELSE LessOftenTimes(NewScoreOf("less-often", x), k - 1)

\* the effective score as the reduction of the 'less often' button applied
\* floor(n * w) times to x, then once more scaled by the remainder of n * w
\* (w is weightNum / WeightDen)
PenalisedScore(x, n, weightNum) ==
    LET whole == (n * weightNum) \div WeightDen
        rest == (n * weightNum) % WeightDen
        y == LessOftenTimes(x, whole)
    IN IF rest = 0 THEN y
       ELSE Minus(y, (Minus(y, NewScoreOf("less-often", y)) * rest) \div WeightDen)

MaxClock == 4

\* pomodoros started in one behaviour
MaxPomodoros == 2

\* settings.pomodoroDuration, in seconds of the clock
PomodoroDurations == { 1, 2 }

\* mutant: the click restarts a running pomodoro
StartPomodoroRestart(p, d) ==
    [ p EXCEPT !.slot = TRUE, !.isActive = TRUE, !.startTime = p.clock,
               !.durationMs = d, !.remainingMs = d,
               !.intervalId = TRUE,
               !.loops = IF p.intervalId THEN @ ELSE @ + 1,
               !.started = @ + 1 ]

\* startPomodoroBtn click: the plugin-level part
StartPomodoro(p, d) ==
    IF p.slot /\ p.isActive THEN p
    ELSE [ p EXCEPT !.slot = TRUE, !.isActive = TRUE, !.startTime = p.clock,
                    !.durationMs = d, !.remainingMs = d,
                    !.intervalId = TRUE,
                    !.loops = IF p.intervalId THEN @ ELSE @ + 1,
                    !.started = @ + 1 ]

\* mutant: on completion the interval is left running
GlobalTickKeepsLoop(p) ==
    IF ~p.slot \/ ~p.isActive THEN p
    ELSE LET remaining == Max(0, p.durationMs - (p.clock - p.startTime)) IN
         IF remaining <= 0
         THEN [ p EXCEPT !.remainingMs = remaining, !.isActive = FALSE ]
         ELSE [ p EXCEPT !.remainingMs = remaining ]

\* the callback of the plugin-global interval; clearInterval ends the one live
\* interval the id stands for
GlobalTick(p) ==
    IF ~p.slot \/ ~p.isActive THEN p
    ELSE LET remaining == Max(0, p.durationMs - (p.clock - p.startTime)) IN
         IF remaining <= 0
         THEN [ p EXCEPT !.remainingMs = remaining,
                         !.loops = IF p.intervalId THEN @ - 1 ELSE @,
                         !.intervalId = FALSE,
                         !.isActive = FALSE ]
         ELSE [ p EXCEPT !.remainingMs = remaining ]

\* mutant: the state is dropped, the global interval keeps running
CancelPomodoroKeepsLoop(p) ==
    IF ~p.slot \/ ~p.isActive THEN p
    ELSE [ p EXCEPT !.slot = FALSE, !.isActive = FALSE, !.startTime = 0,
                    !.durationMs = 0, !.remainingMs = 0 ]

\* cancelPomodoroBtn click: the plugin-level part (pomodoroState = null)
CancelPomodoro(p) ==
    IF ~p.slot \/ ~p.isActive THEN p
    ELSE [ p EXCEPT !.loops = IF p.intervalId THEN @ - 1 ELSE @,
                    !.intervalId = FALSE,
                    !.slot = FALSE, !.isActive = FALSE, !.startTime = 0,
                    !.durationMs = 0, !.remainingMs = 0 ]

\* click on 'Lancer le Pomodoro' in the open modal; a new pomodoro is started
\* only if the clock of the behaviour lasts until its end and the behaviour
\* has pomodoros left
StartPomodoroClick ==
    /\ loaded
    /\ chosen # NoFile
    /\ \E d \in PomodoroDurations :
          /\ \/ pomodoro.slot /\ pomodoro.isActive
             \/ /\ pomodoro.clock + d <= MaxClock
                /\ pomodoro.started < MaxPomodoros
          /\ pomodoro' = StartPomodoro(pomodoro, d)
    /\ last' = [ op |-> "pomodoro-start", file |-> chosen, first |-> FALSE ]
    /\ UNCHANGED << data, legacyFile, vault, settings, sessionIgnoredProjects,
                    sessionReviewCounts, chosen, starts, now, inflight >>

\* click on 'Annuler' in the open modal
CancelPomodoroClick ==
    /\ loaded
    /\ chosen # NoFile
    /\ pomodoro' = CancelPomodoro(pomodoro)
    /\ last' = [ op |-> "pomodoro-cancel", file |-> chosen, first |-> FALSE ]
    /\ UNCHANGED << data, legacyFile, vault, settings, sessionIgnoredProjects,
                    sessionReviewCounts, chosen, starts, now, inflight >>

\* a live global interval fires its callback
PomodoroTick ==
    /\ pomodoro.loops > 0
    /\ pomodoro' = GlobalTick(pomodoro)
    /\ last' = [ op |-> "pomodoro-tick", file |-> NoFile, first |-> FALSE ]
    /\ UNCHANGED << data, legacyFile, vault, settings, sessionIgnoredProjects,
                    sessionReviewCounts, chosen, starts, now, inflight >>

\* a second passes (Date.now)
ClockAdvance ==
    /\ pomodoro.clock < MaxClock
    /\ pomodoro' = [ pomodoro EXCEPT !.clock = @ + 1 ]
    /\ UNCHANGED << data, legacyFile, vault, settings, sessionIgnoredProjects,
                    sessionReviewCounts, chosen, starts, now, last, inflight >>

\* the plugin loaded on a vault this revision ran in, no modal open
InitPomodoro ==
    /\ data \in { d \in UnifiedData :
                    /\ d.settings.rotationBonus = DefaultRotationBonus
                    /\ d.stats = StatsMixed }
    /\ settings = data.settings
    /\ legacyFile = NoLegacyFile
    /\ vault = VaultBodyTags
    /\ sessionIgnoredProjects = {}
    /\ sessionReviewCounts = [ f \in Files |-> 0 ]
    /\ chosen = NoFile
    /\ starts = 1
    /\ now = 0
    /\ last = [ op |-> "init", file |-> NoFile, first |-> FALSE ]
    /\ inflight = NoInflight
    /\ pomodoro = NoPomodoro

NextPomodoro ==
    \/ OpenModal
    \/ CloseModal
    \/ StartPomodoroClick
    \/ CancelPomodoroClick
    \/ PomodoroTick
    \/ ClockAdvance

SpecPomodoro == InitPomodoro /\ [][NextPomodoro]_vars

\* the interval keeps firing and the clock advances
SpecPomodoroLive ==
    SpecPomodoro /\ WF_vars(PomodoroTick) /\ WF_vars(ClockAdvance)

PomodoroActive == pomodoro.slot /\ pomodoro.isActive

\* the pomodoro ran to its end
PomodoroCompleted ==
    /\ pomodoro.slot
    /\ ~pomodoro.isActive
    /\ pomodoro.remainingMs = 0
    /\ ~pomodoro.intervalId
    /\ pomodoro.loops = 0

\* C35: a click on 'Lancer le Pomodoro' while a pomodoro is active changes
\* neither its start time, duration and remaining time nor the number of
\* global intervals
StartWhileActiveNoOp ==
    [][ (StartPomodoroClick /\ PomodoroActive) => pomodoro' = pomodoro ]_vars

\* C35 witness: the start button was clicked on a pomodoro started earlier
StartWhileActiveWitness ==
    /\ last.op = "pomodoro-start"
    /\ PomodoroActive
    /\ pomodoro.clock > pomodoro.startTime
    /\ pomodoro.started = 1

\* C36: at most one global interval is live and the plugin holds its id, the
\* callback applied while no pomodoro is active changes nothing, and right
\* after a cancel there is no pomodoro state, no id and no live interval
OneTickLoop ==
    /\ [] ( /\ pomodoro.loops <= 1
            /\ pomodoro.intervalId <=> pomodoro.loops = 1
            /\ ~PomodoroActive => GlobalTick(pomodoro) = pomodoro )
    /\ [][ (CancelPomodoroClick /\ PomodoroActive) =>
             /\ ~pomodoro'.slot
             /\ ~pomodoro'.intervalId
             /\ pomodoro'.loops = 0 ]_vars

\* C36 witness: the second pomodoro of the behaviour was cancelled while it
\* ran, after the clock had advanced
OneTickLoopWitness ==
    /\ last.op = "pomodoro-cancel"
    /\ pomodoro.started = 2
    /\ ~pomodoro.slot
    /\ pomodoro.loops = 0
    /\ pomodoro.clock > 0

\* C39: a running pomodoro leads to a completed one (inactive, nothing
\* remaining, the global interval released) unless it is cancelled, and from
\* a completed one a click starts the next
PomodoroCompletes ==
    /\ PomodoroActive ~> (PomodoroCompleted \/ ~pomodoro.slot)
    /\ [] ( PomodoroCompleted =>
              \A d \in PomodoroDurations :
                 LET p == StartPomodoro(pomodoro, d) IN
                   p.isActive /\ p.loops = 1 /\ p.remainingMs = d )

\* C39 witness: the second pomodoro of the behaviour has completed
PomodoroCompletesWitness ==
    /\ PomodoroCompleted
    /\ pomodoro.started = 2
    /\ last.op = "pomodoro-tick"

\* ------------------------------------------------------- session counts
\* C32: a click on a review button raises the session count of the presented
\* file by exactly 1, first review or not, and keeps every other count; every
\* onload starts with all counts at 0 whatever the session before had counted;
\* the counts change at no other step, and what onload leaves in data.json and
\* in the legacy stats file is computed from the stored state alone
SessionCountStep ==
    [][ /\ (Click /\ last'.op \in ReviewOps) =>
             \A g \in Files :
                sessionReviewCounts'[g] =
                    sessionReviewCounts[g] + (IF g = last'.file THEN 1 ELSE 0)
        /\ starts' # starts =>
             \A g \in Files : sessionReviewCounts'[g] = 0
        /\ (sessionReviewCounts' # sessionReviewCounts /\ ~Click) =>
             /\ starts' # starts
             /\ LET ps == Startup(PluginState(data, settings, legacyFile), vault)
                IN data' = ps.d /\ legacyFile' = ps.lf ]_vars

\* C32 witness: a first review raised a count from 1 to 2 while another file
\* had been counted in the same session, after a restart
SessionCountWitness ==
    /\ last.op \in ReviewOps
    /\ last.first
    /\ starts = 2
    /\ sessionReviewCounts[last.file] = 2
    /\ \E g \in Files \ { last.file } : sessionReviewCounts[g] = 1

\* ------------------------------------------------------- history entries
\* C33: the history entry a counted review appends carries as scoreAfter the
\* currentScore the record holds after that review, 'finished' included
HistoryScoreAfter ==
    [][ (Click /\ last'.op \in ReviewOps /\ ~last'.first) =>
          LET r == ProjectsAfter[last'.file]
          IN /\ r.reviewHistory # << >>
             /\ r.reviewHistory[Len(r.reviewHistory)].date = now'
             /\ r.reviewHistory[Len(r.reviewHistory)].scoreAfter =
                    r.currentScore ]_vars

\* ------------------------------------------------------- review totals
\* a fresh install: no data.json, no stats.json
InitEmpty ==
    /\ data = FreshData
    /\ legacyFile = NoLegacyFile
    /\ InitPlugin

SpecEmpty == InitEmpty /\ [][Next]_vars

\* review actions of the session that were not the first on their file
RECURSIVE CountedReviews(_, _)
CountedReviews(counts, S) ==
    IF S = {} THEN 0
    ELSE LET f == CHOOSE x \in S : TRUE
         IN Max(0, counts[f] - 1) + CountedReviews(counts, S \ {f})

\* C34: in the first session on an empty payload, the global totalReviews is
\* the number of review actions that were not the first on their file, and
\* is the sum of the records' totalReviews
ReviewTotalsFromEmpty ==
    starts = 1 =>
       /\ StatsOf(data).globalStats.totalReviews =
             CountedReviews(sessionReviewCounts, Files)
       /\ StatsOf(data).globalStats.totalReviews =
             SumReviews(Projects, DOMAIN Projects)

\* ------------------------------------------------------- one container
\* C37: a save from the settings tab stores the settings of the plugin and
\* leaves the stored stats as they were; a review click stores its stats next
\* to the settings of the plugin; so the stored settings are those of the
\* plugin after either
ContainerShared ==
    [][ /\ (SetRotationBonus \/ SetRapprochmentFactor) =>
             /\ data'.settings = settings'
             /\ HasPayloadStats(data') = HasPayloadStats(data)
             /\ StatsOf(data') = StatsOf(data)
        /\ (Click /\ last'.op \in ReviewOps) =>
             /\ HasPayloadStats(data')
             /\ data'.settings = settings
             /\ settings' = settings ]_vars

\* C37 witness: a counted review was stored after a settings save that
\* followed the reviews of an earlier session
ContainerSharedWitness ==
    /\ last.op \in ReviewOps
    /\ ~last.first
    /\ starts = 2
    /\ now >= 2
    /\ settings.rotationBonus # DefaultRotationBonus
    /\ data.settings = settings
    /\ Projects[last.file].totalReviews > 0

\* ------------------------------------------------- overlapping handlers
\* The click listener of a button is async and nothing disables the buttons
\* or the keyboard shortcuts while it runs: a second click or key press on the
\* open modal starts a second handler on the same file.

\* btn1 / btn2 / btn3 click, or key 1 / 2 / 3, up to the first store operation
\* of updateScore, in the first handler that has not been fired
HandlerBegin(h, action) ==
    /\ loaded
    /\ chosen # NoFile
    /\ now < MaxStepClicks
    /\ inflight.handlers[h].pc = "idle"
    /\ \A k \in Handlers : k < h => inflight.handlers[k].pc # "idle"
    /\ LET f == chosen
           s == GetProjectScore(data, settings, f)
       IN /\ sessionReviewCounts' = BumpCount(sessionReviewCounts, f)
          /\ data' = GetProjectStats(data, settings, f)
          /\ inflight' = [ inflight EXCEPT !.handlers[h] =
                [ pc |-> "begun", file |-> f, action |-> action,
                  newScore |-> NewScoreOf(action, s),
                  first |-> ProjectStatsOf(data, settings, f).totalReviews = 0,
                  sd |-> createEmptyStatsData,
                  overlap |-> \E k \in Handlers \ { h } :
                      inflight.handlers[k].pc \notin { "idle", "done" } ] ]
    /\ now' = now + 1
    /\ UNCHANGED pomodoro
    /\ UNCHANGED << legacyFile, vault, settings, sessionIgnoredProjects,
                    chosen, starts, last >>

\* updateProjectScore, incrementRotationBonus or recordReviewAction of a
\* handler up to its call of saveStatsData
HandlerLoadModify(h) ==
    /\ inflight.handlers[h].pc \in ReadyPcs
    /\ LET tx == inflight.handlers[h]
           after ==
             CASE tx.pc = "begun" ->
                    UpdateProjectScore(data, settings, tx.file, tx.newScore)
               [] tx.pc = "score-written" ->
                    IncrementRotationBonus(data, settings, tx.file)
               [] tx.pc = "bonus-written" ->
                    RecordReviewAction(data, settings, tx.file, tx.action,
                                       tx.newScore, now)
           pc == CASE tx.pc = "begun"         -> "score-modified"
                   [] tx.pc = "score-written" -> "bonus-modified"
                   [] tx.pc = "bonus-written" -> "record-modified"
       IN inflight' = [ inflight EXCEPT !.handlers[h].pc = pc,
                                        !.handlers[h].sd = StatsOf(after) ]
    /\ UNCHANGED pomodoro
    /\ UNCHANGED << data, legacyFile, vault, settings, sessionIgnoredProjects,
                    sessionReviewCounts, chosen, starts, now, last >>

\* saveStatsData of a handler from its read of the container to saveData;
\* after its last store operation the handler closes the modal
HandlerWrite(h) ==
    /\ inflight.handlers[h].pc \in ModifiedPcs
    /\ LET tx == inflight.handlers[h]
           done == \/ tx.pc = "record-modified"
                   \/ (tx.pc = "score-modified" /\ tx.first)
           pc == CASE tx.pc = "score-modified" -> "score-written"
                   [] tx.pc = "bonus-modified" -> "bonus-written"
                   [] OTHER                    -> "done"
       IN /\ data' = SaveStatsData(data, settings, tx.sd)
          /\ IF done
             THEN /\ inflight' = [ inflight EXCEPT !.handlers[h].pc = "done" ]
                  /\ chosen' = NoFile
                  /\ last' = [ op |-> tx.action, file |-> tx.file,
                               first |-> tx.first ]
             ELSE /\ inflight' = [ inflight EXCEPT !.handlers[h].pc = pc ]
                  /\ UNCHANGED << chosen, last >>
    /\ UNCHANGED pomodoro
    /\ UNCHANGED << legacyFile, vault, settings, sessionIgnoredProjects,
                    sessionReviewCounts, starts, now >>

\* the plugin loaded on a vault this revision ran in, every project reviewed
\* before, no modal open
InitOverlap ==
    /\ data \in { d \in UnifiedData :
                    /\ d.settings.rotationBonus = DefaultRotationBonus
                    /\ d.stats = StatsAllReviewed }
    /\ settings = data.settings
    /\ legacyFile = NoLegacyFile
    /\ vault = VaultBodyTags
    /\ sessionIgnoredProjects = {}
    /\ sessionReviewCounts = [ f \in Files |-> 0 ]
    /\ chosen = NoFile
    /\ starts = 1
    /\ now = 0
    /\ last = [ op |-> "init", file |-> NoFile, first |-> FALSE ]
    /\ inflight = NoInflight
    /\ pomodoro = NoPomodoro

NextOverlap ==
    \/ OpenModal
    \/ \E h \in Handlers, action \in ScoreOps : HandlerBegin(h, action)
    \/ \E h \in Handlers : HandlerLoadModify(h)
    \/ \E h \in Handlers : HandlerWrite(h)

SpecOverlap == InitOverlap /\ [][NextOverlap]_vars

\* C38: when the second handler was fired on the presented file while the
\* first was still running, then after both have finished the file has two
\* more counted reviews and two more history entries than the record the
\* behaviour started with, its stored score is the second action applied to
\* the result of the first, and the global total has grown by two
NoLostReview ==
    LET h1 == inflight.handlers[1]
        h2 == inflight.handlers[2]
    IN ( /\ h1.pc = "done"
         /\ h2.pc = "done"
         /\ h1.file = h2.file
         /\ h2.overlap ) =>
       LET r0 == StatsAllReviewed.projects[h1.file]
           r  == Projects[h1.file]
       IN /\ r.totalReviews = r0.totalReviews + 2
          /\ Len(r.reviewHistory) = Len(r0.reviewHistory) + 2
          /\ r.currentScore =
                Clamp(NewScoreOf(h2.action,
                                 Clamp(NewScoreOf(h1.action, r0.currentScore))))
          /\ StatsOf(data).globalStats.totalReviews =
                StatsAllReviewed.globalStats.totalReviews + 2

====
